---------------------------- MODULE Spec2Model ----------------------------
(***************************************************************************)
(* A model of the audiosocket transcriber's per-session machinery: the     *)
(* global response timer (internal/flow/timer.go), the interrupt pattern   *)
(* matcher (internal/audio/patterns.go), and the session with its flow     *)
(* engine, playback goroutines and transcription forwarders                *)
(* (internal/server/server.go, internal/flow/engine.go).                   *)
(*                                                                         *)
(* Time is counted in ticks of 250 ms.  Goroutines are interleaved one     *)
(* statement (or one blocking point) at a time.                            *)
(***************************************************************************)
EXTENDS Integers, Sequences, FiniteSets, TLC

(***************************************************************************)
(* Bounds of the model.                                                    *)
(***************************************************************************)
\* the duration handed to NewGlobalTimer, in ticks (15 s in the engine)
TimerTicks == 3
\* time.Timer instances that can be alive (armed or in their callback) at once
MaxInst == 3
\* longest transcript text handed to the pattern matcher, in characters
MaxTextLen == 3
\* executeNode calls per session
MaxNodes == 4
\* results the transcriber produces per session
MaxResults == 2
\* the engine's timeout in ticks
FlowTicks == 1
\* connections the server accepts
MaxConns == 2
\* audio frames a session writes to its connection
MaxAudio == 1
\* chunks of the longest cached payload
MaxChunks == 3
\* words of the longest text handed to the classifier
MaxWords == 3
\* samples of the longest buffer handed to the resampler
MaxSamples == 3
\* word groups of the longest pattern, and words of the longest group
MaxGroups == 2
MaxGroupWords == 2
\* the number of frames on the wire of a session
MaxWire == 3
\* the capacity of the transcriber's results channel (100 in the source), scaled down
ResultsCap == 3

(***************************************************************************)
(* Program constants.                                                      *)
(***************************************************************************)
\* resetDebounce: 500 ms = 2 ticks
ResetDebounce == 2
\* audiosocket.DefaultSlinChunkSize: bytes of a 20 ms chunk
DefaultSlinChunkSize == 320
\* the longest payload the 16-bit length of a frame can state
MaxPayload == 65535

VARIABLES
    gt,        \* the GlobalTimer object and the time.Timer instances it created
    op,        \* the last GlobalTimer operation or timer event that happened
    pm,        \* the PatternMatcher: its loaded config, and whether the file is newer
    pmFile,    \* the rules file on disk: the name of a config, or "bad" (unreadable, unparsable)
    pmText,    \* the text under detection
    pmResult,  \* key of the rule the last DetectInterrupt returned ("nil": none, "none": not run)
    pmFirst,   \* key returned by the first detection on pmText with this rule set
    flow,      \* the name of the session's flow configuration
    fe,        \* the FlowEngine and the position of its goroutine
    sess,      \* the Session's stop-audio channel
    pb,        \* the playbacks requested so far, in request order
    fw,        \* the goroutines of GetTranscriptionResults, one per call
    asr,       \* the transcriber: the results produced and its results channel
    conn,      \* the frames written to the connection, in order
    recvd,     \* the results the wait loops received (positions in asr.out)
    lastTmo,   \* the timeout signal the engine received last
    waits,     \* one record per entry into waitForResponse
    api,       \* the boundary calls emitted
    srv,       \* the Server: accept loop, listener, shutdown channel, WaitGroup, Stop()
    hc,        \* the handleConnection goroutines, one per accepted connection
    pl,        \* a playback of the Player on its own
    rc,        \* a call of the ResponseClassifier on its own
    rs,        \* a call of resample8to16 on its own
    pt,        \* a call of matchesRequired and matchesAlternative on its own
    ci,        \* two detections on a text and a re-casing of it
    fr,        \* a frame written to a connection and read back
    ld,        \* the legacy InterruptDetector
    ms,        \* the message loop of one session: the wire, what was handled, the exit
    vt,        \* the VoskTranscriber: its receive goroutine and its results channel
    ba         \* the buffered adapter: its buffer and the audio messages it sent

timerVars == <<gt, op>>
matcherVars == <<pm, pmFile, pmText, pmResult, pmFirst>>
flowVars == <<flow, fe, sess, pb, fw, asr, conn, recvd, lastTmo, waits, api>>
serverVars == <<srv, hc>>
pureVars == <<pl, rc, rs, pt, ci, fr, ld, ms, vt, ba>>
vars == <<gt, op, pm, pmFile, pmText, pmResult, pmFirst,
          flow, fe, sess, pb, fw, asr, conn, recvd, lastTmo, waits, api,
          srv, hc, pl, rc, rs, pt, ci, fr, ld, ms, vt, ba>>
notTimerVars == <<matcherVars, flowVars, serverVars, pureVars>>
notMatcherVars == <<timerVars, flowVars, serverVars, pureVars>>
notServerVars == <<timerVars, matcherVars, flowVars, pureVars>>
notPureVars == <<timerVars, matcherVars, flowVars, serverVars>>

(***************************************************************************)
(* GlobalTimer.  gt.timer is the slot of the time.Timer the object points  *)
(* at (0 = nil).  gt.since is time.Since(gt.lastReset) in ticks, saturated *)
(* at ResetDebounce (lastReset starts as the zero time, long ago).  An     *)
(* instance is "armed" (counting down rem ticks), "sending" (its AfterFunc *)
(* callback is blocked in the send on the unbuffered timeoutChan),         *)
(* "delivered" (the send was received, isActive = false not yet executed)  *)
(* or "free".  stopCalled records that Stop() was called on the instance   *)
(* after it had fired.                                                     *)
(***************************************************************************)
Slots == 1..MaxInst

FreeInst == [st |-> "free", rem |-> 0, stopCalled |-> FALSE]

NewGlobalTimer(duration) ==
    [duration |-> duration,
     isActive |-> FALSE,
     timer    |-> 0,
     since    |-> ResetDebounce,
     inst     |-> [j \in Slots |-> FreeInst]]

\* time.Timer.Stop: cancels an instance that has not fired; has no effect on
\* a callback that is already running
timerStop(t, j) ==
    CASE t.inst[j].st = "armed"   -> [t EXCEPT !.inst[j] = FreeInst]
      [] t.inst[j].st = "sending" -> [t EXCEPT !.inst[j].stopCalled = TRUE]
      [] OTHER                    -> t

GlobalTimerStop(t) ==
    LET s == IF t.timer # 0 THEN [timerStop(t, t.timer) EXCEPT !.timer = 0] ELSE t
    IN  [s EXCEPT !.isActive = FALSE]

FreeSlots(t) == {j \in Slots : t.inst[j].st = "free"}

\* time.AfterFunc: a new instance in the lowest free slot
afterFunc(t) ==
    LET j == CHOOSE k \in FreeSlots(t) : \A m \in FreeSlots(t) : k <= m
    IN  [t EXCEPT !.timer = j,
                  !.inst[j] = [st |-> "armed", rem |-> t.duration, stopCalled |-> FALSE]]

GlobalTimerStart(t) ==
    LET s == IF t.isActive THEN GlobalTimerStop(t) ELSE t
    IN  afterFunc([s EXCEPT !.isActive = TRUE])

\* a faulty variant of Reset: the debounce is forgotten
GlobalTimerResetNoDebounce(t) ==
    LET s == IF t.isActive THEN GlobalTimerStop(t) ELSE t
    IN  [GlobalTimerStart(s) EXCEPT !.since = 0]

GlobalTimerReset(t) ==
    IF t.since < ResetDebounce
    THEN t
    ELSE LET s == IF t.isActive THEN GlobalTimerStop(t) ELSE t
         IN  [GlobalTimerStart(s) EXCEPT !.since = 0]

IsActive(t) == t.isActive

\* the model can arm another instance (a slot is free once Start has stopped
\* the instance it points at)
CanStart(t) == FreeSlots(IF t.isActive THEN GlobalTimerStop(t) ELSE t) # {}
CanReset(t) == t.since < ResetDebounce \/ CanStart(t)

Armed(t)   == {j \in Slots : t.inst[j].st = "armed"}
Sending(t) == {j \in Slots : t.inst[j].st = "sending"}

\* the callback of AfterFunc starts: gt.timeoutChan <- struct{}{} blocks
\* until somebody receives
fire(t, j) == [t EXCEPT !.inst[j].st = "sending"]
\* the send has been received
received(t, j) == [t EXCEPT !.inst[j].st = "delivered"]
\* the callback's last statement: gt.isActive = false
clearActive(t, j) == [t EXCEPT !.isActive = FALSE, !.inst[j] = FreeInst]

\* 250 ms pass
tick(t) ==
    [t EXCEPT !.since = IF @ < ResetDebounce THEN @ + 1 ELSE @,
              !.inst = [j \in Slots |->
                          IF t.inst[j].st = "armed"
                          THEN [t.inst[j] EXCEPT !.rem = @ - 1]
                          ELSE t.inst[j]]]

\* time cannot pass an expiry: an instance whose time is up fires first
CanTick(t) == \A j \in Armed(t) : t.inst[j].rem > 0

(***************************************************************************)
(* PatternMatcher.  A string is a sequence of one-character strings.       *)
(***************************************************************************)
Alphabet == {"a", "b", "A", " "}

\* strings.ToLower
Upper == <<"A", "B", "C", "D", "E", "F", "G", "H", "I", "J", "K", "L", "M",
           "N", "O", "P", "Q", "R", "S", "T", "U", "V", "W", "X", "Y", "Z">>
Lower == <<"a", "b", "c", "d", "e", "f", "g", "h", "i", "j", "k", "l", "m",
           "n", "o", "p", "q", "r", "s", "t", "u", "v", "w", "x", "y", "z">>
lowerChar(c) ==
    IF \E i \in DOMAIN Upper : Upper[i] = c
    THEN Lower[CHOOSE i \in DOMAIN Upper : Upper[i] = c]
    ELSE c
ToLower(s) == [i \in 1..Len(s) |-> lowerChar(s[i])]

\* strings.Contains
Contains(s, sub) ==
    \E i \in 0..(Len(s) - Len(sub)) : SubSeq(s, i + 1, i + Len(sub)) = sub

\* strings.Fields: the maximal runs of non-space characters
RECURSIVE fieldsFrom(_, _, _)
fieldsFrom(s, i, cur) ==
    IF i > Len(s)
    THEN IF cur = <<>> THEN <<>> ELSE <<cur>>
    ELSE IF s[i] = " "
         THEN (IF cur = <<>> THEN <<>> ELSE <<cur>>) \o fieldsFrom(s, i + 1, <<>>)
         ELSE fieldsFrom(s, i + 1, Append(cur, s[i]))
Fields(s) == fieldsFrom(s, 1, <<>>)

Range(f) == {f[i] : i \in DOMAIN f}

checkWord(settings, w) == IF ~settings.CaseSensitive THEN ToLower(w) ELSE w

matchesExact(settings, searchText, phrases) ==
    \E i \in DOMAIN phrases : Contains(searchText, checkWord(settings, phrases[i]))

matchesCombo(settings, searchText, wordLists) ==
    \E i \in DOMAIN wordLists :
        \A k \in DOMAIN wordLists[i] :
            Contains(searchText, checkWord(settings, wordLists[i][k]))

matchesRequired(settings, searchText, requiredGroups) ==
    LET words == Fields(searchText)
    IN  \A g \in DOMAIN requiredGroups :
            \E k \in DOMAIN requiredGroups[g] :
                \E w \in DOMAIN words :
                    Contains(ToLower(words[w]), checkWord(settings, requiredGroups[g][k]))

matchesAlternative(settings, searchText, wordGroups) ==
    LET words == Fields(searchText)
    IN  \A g \in DOMAIN wordGroups :
            \E k \in DOMAIN wordGroups[g] :
                \E w \in DOMAIN words :
                    Contains(ToLower(words[w]), checkWord(settings, wordGroups[g][k]))

matchesPattern(settings, searchText, pattern) ==
    CASE pattern.Type = "exact"       -> matchesExact(settings, searchText, pattern.Phrases)
      [] pattern.Type = "combo"       -> matchesCombo(settings, searchText, pattern.Words)
      [] pattern.Type = "required"    -> matchesRequired(settings, searchText, pattern.RequiredWords)
      [] pattern.Type = "alternative" -> matchesAlternative(settings, searchText, pattern.WordGroups)
      [] OTHER                        -> FALSE

matchesRule(settings, searchText, rule) ==
    \E i \in DOMAIN rule.Patterns : matchesPattern(settings, searchText, rule.Patterns[i])

\* a Pattern as yaml.Unmarshal leaves it: the lists of the other types are empty
Exact(phrases)     == [Type |-> "exact", Phrases |-> phrases, Words |-> <<>>,
                       RequiredWords |-> <<>>, WordGroups |-> <<>>]
Combo(words)       == [Type |-> "combo", Phrases |-> <<>>, Words |-> words,
                       RequiredWords |-> <<>>, WordGroups |-> <<>>]
Required(groups)   == [Type |-> "required", Phrases |-> <<>>, Words |-> <<>>,
                       RequiredWords |-> groups, WordGroups |-> <<>>]
Alternative(groups) == [Type |-> "alternative", Phrases |-> <<>>, Words |-> <<>>,
                       RequiredWords |-> <<>>, WordGroups |-> groups]

Rule(name, priority, patterns) ==
    [Name |-> name, Priority |-> priority, Patterns |-> patterns]

\* the words and phrases of the rule sets
sA  == <<"a">>
sB  == <<"b">>
sUA == <<"A">>
sUB == <<"B">>
sAB == <<"a", "b">>
sB_A == <<"b", " ", "a">>
sStopCalling == <<"s", "t", "o", "p", " ", "c", "a", "l", "l", "i", "n", "g">>
sBA == <<"b", "a">>
sUAB == <<"A", "B">>
sUBA == <<"B", "A">>
sMachine == <<"m", "a", "c", "h", "i", "n", "e">>

\* the rule sets (InterruptConfig values) the model loads, by name; "E" is "D"
\* with its phrases and words in upper case; "session"
\* is the one of a session's matcher: the rule that patterns_test.go expects
\* of config/interrupts.yaml
ConfigNames == {"A", "B", "C"}

Cfg(name) ==
    CASE name = "A" ->
           [Interrupts |->
               [k \in {"dnc", "not_interested", "robot"} |->
                   CASE k = "dnc"            -> Rule("Do Not Call", 1, <<Exact(<<sAB>>)>>)
                     [] k = "not_interested" -> Rule("Not Interested", 2, <<Exact(<<sUB>>)>>)
                     [] k = "robot"          -> Rule("Robot Detection", 3,
                                                     <<Combo(<< <<sA, sB>> >>)>>)],
            Settings |-> [CaseSensitive |-> FALSE, ReloadOnDetection |-> TRUE]]
      [] name = "B" ->
           [Interrupts |->
               [k \in {"dnc", "callback"} |->
                   CASE k = "dnc"      -> Rule("Do Not Call", 1,
                                               <<Required(<< <<sA>>, <<sB>> >>)>>)
                     [] k = "callback" -> Rule("Callback Request", 4,
                                               <<Alternative(<< <<sA, sB>> >>),
                                                 Exact(<<sUA>>)>>)],
            Settings |-> [CaseSensitive |-> TRUE, ReloadOnDetection |-> TRUE]]
      [] name = "C" ->
           [Interrupts |->
               [k \in {"dnc"} |-> Rule("Do Not Call", 1, <<Exact(<<sB_A>>)>>)],
            Settings |-> [CaseSensitive |-> FALSE, ReloadOnDetection |-> FALSE]]
      [] name = "D" ->
           [Interrupts |->
               [k \in {"dnc", "robot", "callback"} |->
                   CASE k = "dnc"      -> Rule("Do Not Call", 1,
                                               <<Exact(<<sAB>>), Required(<< <<sBA>> >>)>>)
                     [] k = "robot"    -> Rule("Robot Detection", 3,
                                               <<Combo(<< <<sA, sB>> >>)>>)
                     [] k = "callback" -> Rule("Callback Request", 4,
                                               <<Alternative(<< <<sA, sB>> >>)>>)],
            Settings |-> [CaseSensitive |-> FALSE, ReloadOnDetection |-> FALSE]]
      [] name = "E" ->
           [Interrupts |->
               [k \in {"dnc", "robot", "callback"} |->
                   CASE k = "dnc"      -> Rule("Do Not Call", 1,
                                               <<Exact(<<sUAB>>), Required(<< <<sUBA>> >>)>>)
                     [] k = "robot"    -> Rule("Robot Detection", 3,
                                               <<Combo(<< <<sUA, sUB>> >>)>>)
                     [] k = "callback" -> Rule("Callback Request", 4,
                                               <<Alternative(<< <<sUA, sUB>> >>)>>)],
            Settings |-> [CaseSensitive |-> FALSE, ReloadOnDetection |-> FALSE]]
      [] name = "session" ->
           [Interrupts |->
               [k \in {"dnc", "amd"} |->
                   CASE k = "dnc" -> Rule("Do Not Call", 1, <<Exact(<<sStopCalling>>)>>)
                     [] k = "amd" -> Rule("Answering Machine", 5, <<Exact(<<sMachine>>)>>)],
            Settings |-> [CaseSensitive |-> FALSE, ReloadOnDetection |-> FALSE]]

RECURSIVE SeqsUpTo(_)
SeqsUpTo(n) ==
    IF n = 0 THEN {<<>>}
    ELSE LET shorter == SeqsUpTo(n - 1)
         IN  shorter \cup {Append(s, c) : s \in {x \in shorter : Len(x) = n - 1}, c \in Alphabet}
Texts == SeqsUpTo(MaxTextLen)

\* loadConfig: ReadFile and yaml.Unmarshal; on failure the matcher keeps what it
\* has and the error is returned (m.err is the error DetectInterrupt logs)
loadConfig(m, file) ==
    IF file = "bad"
    THEN [m EXCEPT !.err = TRUE]
    ELSE [config |-> file, fileNewer |-> FALSE, err |-> FALSE]

\* reloadConfigIfNeeded: m.fileNewer is fileInfo.ModTime().After(matcher.lastLoad)
reloadConfigIfNeeded(m, file) ==
    IF Cfg(m.config).Settings.ReloadOnDetection /\ m.fileNewer
    THEN loadConfig(m, file)
    ELSE [m EXCEPT !.err = FALSE]

\* the orders in which a range over the map may visit its keys
Orders(S) ==
    {o \in [1..Cardinality(S) -> S] : \A i, k \in 1..Cardinality(S) : o[i] = o[k] => i = k}

Matching(name, text) ==
    LET config == Cfg(name)
        searchText == IF ~config.Settings.CaseSensitive THEN ToLower(text) ELSE text
    IN  {k \in DOMAIN config.Interrupts :
            matchesRule(config.Settings, searchText, config.Interrupts[k])}

\* the loop of DetectInterrupt over matcher.config.Interrupts, visiting the
\* keys in the order ord: the first matching rule, or nil
firstMatch(config, text, ord) ==
    LET hits == {i \in DOMAIN ord : ord[i] \in Matching(config, text)}
    IN  IF hits = {} THEN "nil"
        ELSE ord[CHOOSE i \in hits : \A k \in hits : i <= k]

\* a faulty variant of DetectInterrupt: it returns nil when the reload fails
DetectInterruptReturnsOnError(m, file, text, ord) ==
    LET m2 == reloadConfigIfNeeded(m, file)
    IN  [pm |-> m2, rule |-> IF m2.err THEN "nil" ELSE firstMatch(m2.config, text, ord)]

\* DetectInterrupt(text): the matcher afterwards and the key of the rule returned
DetectInterrupt(m, file, text, ord) ==
    LET m2 == reloadConfigIfNeeded(m, file)
    IN  [pm |-> m2, rule |-> firstMatch(m2.config, text, ord)]

(***************************************************************************)
(* ResponseClassifier.                                                     *)
(***************************************************************************)
positiveKeywords ==
    <<<<"y", "e", "s">>,
      <<"y", "e", "a", "h">>,
      <<"i", " ", "h", "a", "v", "e">>,
      <<"a", "l", "r", "e", "a", "d", "y", " ", "h", "a", "v", "e">>,
      <<"g", "o", "t", " ", "o", "n", "e">>,
      <<"e", "n", "r", "o", "l", "l", "e", "d">>,
      <<"b", "o", "t", "h", " ", "p", "a", "r", "t", "s">>,
      <<"p", "a", "r", "t", " ", "a">>,
      <<"p", "a", "r", "t", " ", "b">>,
      <<"h", "a", "v", "e", " ", "i", "t">>,
      <<"i", " ", "d", "o">>,
      <<"s", "u", "r", "e">>,
      <<"m", "a", "y", "b", "e">>,
      <<"i", " ", "t", "h", "i", "n", "k", " ", "s", "o">>,
      <<"p", "r", "o", "b", "a", "b", "l", "y">>,
      <<"i", " ", "b", "e", "l", "i", "e", "v", "e", " ", "s", "o">>>>

negativeKeywords ==
    <<<<"n", "o">>,
      <<"d", "o", "n", "'", "t", " ", "h", "a", "v", "e">>,
      <<"d", "o", " ", "n", "o", "t", " ", "h", "a", "v", "e">>,
      <<"n", "o", "t", " ", "y", "e", "t">>,
      <<"n", "o", " ", "c", "o", "v", "e", "r", "a", "g", "e">>,
      <<"i", " ", "d", "o", "n", "'", "t">>,
      <<"i", " ", "d", "o", "n", "'", "t", " ", "t", "h", "i", "n", "k", " ", "s", "o">>,
      <<"n", "e", "g", "a", "t", "i", "v", "e">>,
      <<"n", "o", "p", "e">>,
      <<"n", "a", "h">>,
      <<"i", " ", "d", "o", "n", "'", "t", " ", "w", "a", "n", "t">>,
      <<"n", "o", "t", " ", "i", "n", "t", "e", "r", "e", "s", "t", "e", "d">>,
      <<"l", "e", "a", "v", "e", " ", "m", "e", " ", "a", "l", "o", "n", "e">>>>

\* strings.TrimSpace
RECURSIVE trimLeft(_)
trimLeft(s) == IF s # <<>> /\ Head(s) = " " THEN trimLeft(Tail(s)) ELSE s
RECURSIVE trimRight(_)
trimRight(s) ==
    IF s # <<>> /\ s[Len(s)] = " " THEN trimRight(SubSeq(s, 1, Len(s) - 1)) ELSE s
TrimSpace(s) == trimRight(trimLeft(s))
\* a faulty variant of ClassifyResponse: the positive keywords are checked first
ClassifyPositiveFirst(text) ==
    LET t == ToLower(TrimSpace(text))
    IN  IF \E i \in DOMAIN positiveKeywords : Contains(t, positiveKeywords[i])
        THEN "positive"
        ELSE IF \E i \in DOMAIN negativeKeywords : Contains(t, negativeKeywords[i])
             THEN "negative"
             ELSE "unknown"


ClassifyResponse(text) ==
    LET t == ToLower(TrimSpace(text))
    IN  IF \E i \in DOMAIN negativeKeywords : Contains(t, negativeKeywords[i])
        THEN "negative"
        ELSE IF \E i \in DOMAIN positiveKeywords : Contains(t, positiveKeywords[i])
             THEN "positive"
             ELSE "unknown"

(***************************************************************************)
(* The transcripts of the session model, by name, and their characters.    *)
(***************************************************************************)
TextNames == {"yes", "no", "stop calling", "yes machine", "i am thinking", "um"}

Chars(text) ==
    CASE text = "yes" -> <<"y", "e", "s">>
      [] text = "no" -> <<"n", "o">>
      [] text = "stop calling" -> <<"s", "t", "o", "p", " ", "c", "a", "l", "l", "i", "n", "g">>
      [] text = "yes machine" -> <<"y", "e", "s", " ", "m", "a", "c", "h", "i", "n", "e">>
      [] text = "i am thinking" -> <<"i", " ", "a", "m", " ", "t", "h", "i", "n", "k", "i", "n", "g">>
      [] text = "um" -> <<"u", "m">>

\* what the transcriber can produce
ResultKinds ==
    {[Text |-> "yes", IsFinal |-> TRUE],
     [Text |-> "no", IsFinal |-> TRUE],
     [Text |-> "stop calling", IsFinal |-> TRUE],
     [Text |-> "yes machine", IsFinal |-> TRUE],
     [Text |-> "i am thinking", IsFinal |-> FALSE],
     [Text |-> "um", IsFinal |-> FALSE]}

\* what the caller of each flow says: the transcripts the model feeds a flow
Transcripts(name) ==
    CASE name = "bare"  -> ResultKinds
      [] name = "mute"  -> {r \in ResultKinds : r.Text = "yes"}
      [] name = "retry" -> {r \in ResultKinds : r.Text \in {"no", "yes machine", "um"}}
      [] OTHER          -> {r \in ResultKinds : r.Text \in {"yes", "no", "stop calling", "i am thinking"}}

(***************************************************************************)
(* Flow configurations (FlowConfig.Nodes, as loaded from flow.json).       *)
(***************************************************************************)
Lookup(tr, label) == IF label \in DOMAIN tr THEN tr[label] ELSE ""

NoTransitions == [l \in {} |-> ""]

Node(id, type, file, tr, actions) ==
    [ID |-> id, Type |-> type, AudioFile |-> file, Transitions |-> tr, Actions |-> actions]

ApiCall(endpoint) == [Type |-> "api_call", Endpoint |-> endpoint]

FlowNames == {"main", "greet", "short", "bare", "retry", "lost", "explicit", "twice", "mute"}

\* "main": two questions, a goodbye node and a node for the dnc interrupt;
\* "greet": a greeting, then a question; "short": a greeting, then hangup with
\* no prompt; "bare": one question whose flow has neither an "end_call" nor a
\* "dnc" node; "retry": a question asked again after a negative answer or a
\* timeout, and a node for the dnc interrupt without actions; "lost": a
\* greeting, then a hangup node whose prompt is not in the audio cache;
\* "explicit" and "twice": a hangup node with actions, among them one and two
\* explicit /end_call actions; "mute": a question with no transition but the
\* one for a timeout
FlowNodes(name) ==
    CASE name = "main" ->
           <<Node("start", "question", "ask.wav",
                  ("positive" :> "ask2") @@ ("negative" :> "end_call"), <<>>),
             Node("ask2", "question", "ask2.wav", "default" :> "end_call", <<>>),
             Node("end_call", "hangup", "bye.wav", NoTransitions, <<>>),
             Node("dnc", "interrupt", "dnc.wav", "default" :> "end_call",
                  <<ApiCall("/add_to_dnc")>>)>>
      [] name = "greet" ->
           <<Node("start", "audio", "greeting.wav", "default" :> "ask", <<>>),
             Node("ask", "question", "ask.wav",
                  ("positive" :> "end_call") @@ ("negative" :> "end_call"), <<>>),
             Node("end_call", "hangup", "", NoTransitions, <<>>)>>
      [] name = "short" ->
           <<Node("start", "audio", "greeting.wav", "default" :> "end_call", <<>>),
             Node("end_call", "hangup", "", NoTransitions, <<>>)>>
      [] name = "bare" ->
           <<Node("start", "question", "ask.wav", "positive" :> "xfer", <<>>),
             Node("xfer", "transfer", "transfer.wav", NoTransitions, <<>>)>>
      [] name = "retry" ->
           <<Node("start", "question", "ask.wav",
                  ("negative" :> "again") @@ ("timeout" :> "again"), <<>>),
             Node("again", "question", "ask2.wav", "default" :> "end_call", <<>>),
             Node("end_call", "hangup", "", NoTransitions, <<>>),
             Node("dnc", "interrupt", "dnc.wav", "default" :> "end_call", <<>>)>>
      [] name = "lost" ->
           <<Node("start", "audio", "greeting.wav", "default" :> "end_call", <<>>),
             Node("end_call", "hangup", "gone.wav", NoTransitions, <<>>)>>
      [] name = "explicit" ->
           <<Node("start", "hangup", "bye.wav", NoTransitions,
                  <<ApiCall("/mark_not_interested"), ApiCall("/end_call")>>)>>
      [] name = "mute" ->
           <<Node("start", "question", "ask.wav", "timeout" :> "end_call", <<>>),
             Node("end_call", "hangup", "", NoTransitions, <<>>)>>
      [] name = "twice" ->
           <<Node("start", "hangup", "", NoTransitions,
                  <<ApiCall("/schedule_callback"), ApiCall("/end_call"),
                    ApiCall("/end_call")>>)>>

\* findNode: the position of the first node with this id, 0 for nil
findNode(name, id) ==
    LET nodes == FlowNodes(name)
        hits  == {i \in DOMAIN nodes : nodes[i].ID = id}
    IN  IF hits = {} THEN 0 ELSE CHOOSE i \in hits : \A k \in hits : i <= k

NodeOf(name, id) == FlowNodes(name)[findNode(name, id)]

\* the audio cache: the number of 320-byte chunks of each cached prompt
Cached == {"greeting.wav", "ask.wav", "ask2.wav", "bye.wav", "dnc.wav", "transfer.wav"}
CacheChunks(file) == IF file = "greeting.wav" THEN 2 ELSE 1

(***************************************************************************)
(* Session.                                                                *)
(***************************************************************************)
\* channels are numbered in the order make() created them
NewSession == [stopAudioChan |-> 0, closed |-> {}, panicked |-> FALSE]

\* a faulty variant of StopAudio: the channel is closed and kept
StopAudioNoRecreate(s) ==
    IF s.stopAudioChan \in s.closed
    THEN [s EXCEPT !.panicked = TRUE]
    ELSE [s EXCEPT !.closed = @ \cup {s.stopAudioChan}]

\* StopAudio: close(session.stopAudioChan); session.stopAudioChan = make(chan struct{})
\* (closing a closed channel panics)
StopAudio(s) ==
    IF s.stopAudioChan \in s.closed
    THEN [s EXCEPT !.panicked = TRUE]
    ELSE [s EXCEPT !.closed = @ \cup {s.stopAudioChan},
                   !.stopAudioChan = @ + 1]

\* EndCall: the hangup message is written to the connection
\* the frames on the connection: the audio chunks, each with the playback that
\* wrote it, and the hangup message
AudioFrame(p) == [kind |-> "audio", pb |-> p]
HangupFrame == [kind |-> "hangup", pb |-> 0]

EndCall(c) == Append(c, HangupFrame)

\* CheckForInterrupt: the interrupt key for the name of the rule that
\* DetectInterrupt returned ("" when it returned nil)
interruptKey(ruleName) ==
    CASE ruleName = "Do Not Call"      -> "dnc"
      [] ruleName = "Not Interested"   -> "not_interested"
      [] ruleName = "Robot Detection"  -> "robot"
      [] ruleName = "Callback Request" -> "callback"
      [] OTHER                         -> "dnc"

\* the session's matcher holds the rule set "session"; no text of the model
\* matches two of its rules, so the order of the range over its map is immaterial
CheckForInterrupt(text) ==
    LET ord  == CHOOSE o \in Orders(DOMAIN Cfg("session").Interrupts) : TRUE
        rule == firstMatch("session", Chars(text), ord)
    IN  IF rule = "nil" THEN "" ELSE interruptKey(Cfg("session").Interrupts[rule].Name)

\* a playback: a call of Session.PlayAudio.  st is "spawned" (the goroutine
\* exists and has not yet read session.stopAudioChan), "check" (before the
\* stop check of chunk pos+1), "write" (past the check, before the write),
\* "stopped", "done" or "error".  stopReq: StopAudio was called while the
\* playback was requested and unfinished; late: it passed a stop check
\* after that call.
Playback(file, st, chan) ==
    [file |-> file, st |-> st, chan |-> chan, pos |-> 0,
     stopReq |-> FALSE, late |-> FALSE]

\* go func() { fe.session.PlayAudio(node.AudioFile) }()
spawnPlayback(file) == Playback(file, "spawned", 0)

\* PlayAudio runs: session.stopAudioChan is read and handed to the player
enterPlayAudio(p, s) ==
    IF p.file \notin Cached
    THEN [p EXCEPT !.st = "error", !.chan = s.stopAudioChan]
    ELSE [p EXCEPT !.st = IF CacheChunks(p.file) = 0 THEN "done" ELSE "playing",
                   !.chan = s.stopAudioChan]

\* fe.session.PlayAudio(...) called by the engine itself
callPlayback(file, s) == enterPlayAudio(Playback(file, "spawned", 0), s)

\* one round of the player's loop: the stop check before a chunk and, when the
\* channel it was handed is not closed, the chunk
playChunk(p, s) ==
    IF p.chan \in s.closed
    THEN [p EXCEPT !.st = "stopped"]
    ELSE [p EXCEPT !.pos = @ + 1,
                   !.late = p.late \/ p.stopReq,
                   !.st = IF p.pos + 1 >= CacheChunks(p.file) THEN "done" ELSE "playing"]

Unfinished(p) == p.st \in {"spawned", "playing"}

\* StopAudio was called: remember it for every playback requested and unfinished
markStop(pbs) ==
    [i \in DOMAIN pbs |-> IF Unfinished(pbs[i]) THEN [pbs[i] EXCEPT !.stopReq = TRUE]
                                                  ELSE pbs[i]]

(***************************************************************************)
(* FlowEngine.                                                             *)
(***************************************************************************)
NewFlowEngine ==
    [pc |-> "start", currentNode |-> "", waitingFor |-> "", isActive |-> FALSE,
     lastReason |-> "", transferred |-> FALSE, next |-> "", playing |-> 0,
     nExec |-> 0]

\* waitForResponse: the hangup reason for an interrupt type
interruptReason(interruptType) ==
    CASE interruptType = "dnc"            -> "DNC"
      [] interruptType = "not_interested" -> "NI"
      [] interruptType = "robot"          -> "DNQ"
      [] interruptType = "amd"            -> "A"
      [] interruptType = "callback"       -> "CALLBK"
      [] OTHER                            -> "DNQ"

\* waitForResponse: the id of the node a classified final transcript leads
\* to, "" when the node has neither the label nor "default"
responseTarget(node, responseType) ==
    IF Lookup(node.Transitions, responseType) # ""
    THEN Lookup(node.Transitions, responseType)
    ELSE Lookup(node.Transitions, "default")

\* handleTimeout: the id of the node a timeout leads to
timeoutTarget(node) ==
    IF Lookup(node.Transitions, "timeout") = ""
    THEN "end_call"
    ELSE Lookup(node.Transitions, "timeout")

\* a faulty variant of hangupStatus: no status for an empty reason
hangupStatusNoDefault(lastReason) == lastReason

\* the status of the HANGUP call: the flow reason, DC when there is none
hangupStatus(lastReason) == IF lastReason = "" THEN "DC" ELSE lastReason

hasEndCallAction(actions) ==
    \E i \in DOMAIN actions :
        actions[i].Type = "api_call" /\ actions[i].Endpoint = "/end_call"

\* executeAPICall: the engine and the boundary calls after one api_call action
executeAPICall(st, action) ==
    CASE action.Endpoint = "/add_to_dnc" ->
           [st EXCEPT !.lastReason = "DNC"]
      [] action.Endpoint = "/mark_not_interested" ->
           [st EXCEPT !.lastReason = "NI"]
      [] action.Endpoint = "/schedule_callback" ->
           [st EXCEPT !.lastReason = "CALLBK"]
      [] action.Endpoint = "/transfer_call" ->
           [st EXCEPT !.calls = Append(@, [stage |-> "EXTENSIONTRANSFER", status |-> "XFER"])]
      [] action.Endpoint = "/end_call" ->
           [st EXCEPT !.calls = Append(@, [stage |-> "HANGUP",
                                           status |-> hangupStatus(st.lastReason)])]
      [] OTHER -> st

\* executeActions: st is [lastReason, calls]
RECURSIVE executeActions(_, _)
executeActions(st, actions) ==
    IF actions = <<>> THEN st
    ELSE executeActions(
             IF Head(actions).Type = "api_call" THEN executeAPICall(st, Head(actions)) ELSE st,
             Tail(actions))

(***************************************************************************)
(* Server.  srv.pc is the position of the accept loop of Start, srv.stop   *)
(* the position of Stop, srv.wg the counter of the WaitGroup.  A record of *)
(* hc is one handleConnection goroutine.                                   *)
(***************************************************************************)
Frame(kind, len) == [kind |-> kind, len |-> len]

\* what the first read of a connection can return: a frame, or a read error
FirstFrames ==
    {Frame("id", 16), Frame("id", 0), Frame("id", 17), Frame("slin", 16),
     Frame("hangup", 0), Frame("eof", 0)}

\* what a read of the message loop can return
LoopFrames ==
    {Frame("slin", 1), Frame("slin", 0), Frame("dtmf", 1), Frame("silence", 0),
     Frame("error", 1), Frame("hangup", 0), Frame("eof", 0)}

\* audiosocket.GetID: the frame read is an ID frame with a 16-byte payload
GetID(frame) == frame.kind = "id" /\ frame.len = 16

NewServer ==
    [pc |-> "listen", listener |-> "nil", shutdown |-> FALSE, wg |-> 0, stop |-> "idle"]

\* go s.handleConnection(conn)
NewConnection ==
    [pc |-> "getid", first |-> Frame("none", 0), transcriber |-> FALSE,
     flowEngine |-> FALSE, audio |-> 0, asrDown |-> FALSE, end |-> ""]

\* handleConnection returns: the deferred Close calls and wg.Done()
connReturn(c, why) == [c EXCEPT !.pc = "done", !.end = why]

\* a faulty variant of the first read: the error of GetID is ignored
readIDNoReturn(c, frame) == [c EXCEPT !.first = frame, !.pc = "transcriber"]

\* handleConnection up to the transcriber: the ID frame is read
readID(c, frame) ==
    IF GetID(frame)
    THEN [c EXCEPT !.first = frame, !.pc = "transcriber"]
    ELSE connReturn([c EXCEPT !.first = frame], "noid")

\* handleConnection from the transcriber to the message loop: transcriber,
\* session, flow engine
startSession(c, transcriberOk, engineOk) ==
    IF transcriberOk
    THEN [c EXCEPT !.transcriber = TRUE, !.flowEngine = engineOk, !.pc = "loop"]
    ELSE connReturn(c, "transcriber")

\* Session.handleMessage: "" when it returns nil, else the error
handleMessage(c, frame) ==
    CASE frame.kind = "slin" /\ frame.len > 0 /\ c.asrDown -> "asr"
      [] frame.kind = "error" -> "error"
      [] OTHER -> ""

\* one round of the message loop: NextMessage, handleMessage, the hangup check
messageLoop(c, frame) ==
    CASE frame.kind = "eof" -> connReturn(c, "eof")
      [] handleMessage(c, frame) # "" -> connReturn(c, handleMessage(c, frame))
      [] frame.kind = "hangup" -> connReturn(c, "hangup")
      [] OTHER -> c

(***************************************************************************)
(* Player.  A cached payload is its length in bytes; a frame written to    *)
(* the connection is the offset of its first byte in the payload and its   *)
(* length.  pl.fn is the chunk loop in use.                                *)
(***************************************************************************)
\* cached payload lengths: up to MaxChunks - 1 full chunks and a tail
PcmLens ==
    {k * DefaultSlinChunkSize + r : k \in 0..(MaxChunks - 1), r \in {0, 1, 160, 319}}

PlayerLoops == {"SendSlinChunks", "PlayAmbientAudioWithPause", "FirstChunkAlignment"}

Min(a, b) == IF a < b THEN a ELSE b

\* First Chunk Alignment Rule: the offset the chunk loop starts from
startOffset(len) ==
    IF len > DefaultSlinChunkSize /\ len % DefaultSlinChunkSize # 0
    THEN IF DefaultSlinChunkSize - (len % DefaultSlinChunkSize) >= len
         THEN 0
         ELSE DefaultSlinChunkSize - (len % DefaultSlinChunkSize)
    ELSE 0

\* the playback begins: where its loop starts
beginPlay(fn, len) ==
    LET i == IF fn = "FirstChunkAlignment" THEN startOffset(len) ELSE 0
    IN  [fn |-> fn, len |-> len, pos |-> i, frames |-> <<>>,
         st |-> IF i < len THEN "playing" ELSE "done"]

\* one round of the chunk loop: chunk := audioData[i:end], the write, i += chunkSize
sendChunk(p) ==
    LET end == Min(p.pos + DefaultSlinChunkSize, p.len)
    IN  [p EXCEPT !.frames = Append(@, [off |-> p.pos, n |-> end - p.pos]),
                  !.pos = p.pos + DefaultSlinChunkSize,
                  !.st = IF p.pos + DefaultSlinChunkSize < p.len THEN "playing" ELSE "done"]

\* the pause or stop channel is ready at the check before a chunk
stopPlay(p) == [p EXCEPT !.st = "stopped"]

(***************************************************************************)
(* What the parts of the state are while a specification leaves them alone *)
(***************************************************************************)
TimerIdle ==
    /\ gt = NewGlobalTimer(TimerTicks)
    /\ op = "new"

MatcherIdle ==
    /\ pm = [config |-> "C", fileNewer |-> FALSE, err |-> FALSE]
    /\ pmFile = "C"
    /\ pmText = <<>>
    /\ pmResult = "none"
    /\ pmFirst = "none"

FlowIdle ==
    /\ flow = "short"
    /\ fe = NewFlowEngine
    /\ sess = NewSession
    /\ pb = <<>>
    /\ fw = <<>>
    /\ asr = [out |-> <<>>, q |-> <<>>]
    /\ conn = <<>>
    /\ recvd = <<>>
    /\ lastTmo = [got |-> FALSE, stale |-> FALSE]
    /\ waits = <<>>
    /\ api = <<>>

ServerIdle ==
    /\ srv = NewServer
    /\ hc = <<>>

PatternIdle ==
    /\ pt = [settings |-> [CaseSensitive |-> FALSE, ReloadOnDetection |-> FALSE],
             text |-> <<>>, groups |-> <<>>, done |-> FALSE,
             required |-> FALSE, alternative |-> FALSE,
                combo |-> FALSE, misfiled |-> FALSE, unknown |-> FALSE]

CaseIdle ==
    ci = [config |-> "C", recasedConfig |-> "C", text |-> <<>>, recased |-> <<>>,
          st |-> "idle", rule |-> "nil", recasedRule |-> "nil"]

CodecIdle ==
    fr = [kind |-> 0, payload |-> <<>>, wire |-> <<>>, st |-> "idle",
          gotKind |-> 0, gotPayload |-> <<>>]

MessagesIdle ==
    ms = [wire |-> <<>>, pos |-> 0, pc |-> "idle", log |-> <<>>, exit |-> <<>>,
          asrDown |-> FALSE, saveAudio |-> FALSE, stopAt |-> 0]

TranscriberIdle ==
    vt = [pc |-> "idle", msg |-> "none", queue |-> 0, closed |-> FALSE, conn |-> "open",
          consumer |-> "idle", engine |-> "idle"]

AdapterIdle ==
    ba = [buffer |-> 0, next |-> 0, sent |-> <<>>, tail |-> <<>>,
          pc |-> "idle", fed |-> 0]

LegacyIdle ==
    ld = [isPlaying |-> FALSE, currentInterrupt |-> "", pc |-> "idle",
          text |-> <<>>, wasPlaying |-> FALSE, result |-> "none"]

PureIdle ==
    /\ PatternIdle
    /\ CaseIdle
    /\ CodecIdle
    /\ LegacyIdle
    /\ MessagesIdle
    /\ TranscriberIdle
    /\ AdapterIdle
    /\ pl = [fn |-> "SendSlinChunks", len |-> 0, pos |-> 0, frames |-> <<>>, st |-> "idle"]
    /\ rc = [text |-> <<>>, result |-> "none"]
    /\ rs = [in |-> <<>>, out |-> <<>>]

(***************************************************************************)
(* The timer on its own, driven by an arbitrary single caller and a        *)
(* receiver of the timeout channel.                                        *)
(***************************************************************************)
InitTimer ==
    /\ \E d \in 1..TimerTicks : gt = NewGlobalTimer(d)
    /\ op = "new"
    /\ MatcherIdle
    /\ FlowIdle
    /\ ServerIdle
    /\ PureIdle

CallStart ==
    /\ CanStart(gt)
    /\ gt' = GlobalTimerStart(gt)
    /\ op' = "Start"
    /\ UNCHANGED notTimerVars

CallStop ==
    /\ gt' = GlobalTimerStop(gt)
    /\ op' = "Stop"
    /\ UNCHANGED notTimerVars

CallReset ==
    /\ CanReset(gt)
    /\ gt' = GlobalTimerReset(gt)
    /\ op' = "Reset"
    /\ UNCHANGED notTimerVars

Expire ==
    \E j \in Armed(gt) :
        /\ gt.inst[j].rem = 0
        /\ gt' = fire(gt, j)
        /\ op' = "expire"
        /\ UNCHANGED notTimerVars

RecvTimeout ==
    \E j \in Sending(gt) :
        /\ gt' = received(gt, j)
        /\ op' = "recv"
        /\ UNCHANGED notTimerVars

ClearActive ==
    \E j \in Slots :
        /\ gt.inst[j].st = "delivered"
        /\ gt' = clearActive(gt, j)
        /\ op' = "clear"
        /\ UNCHANGED notTimerVars

Tick ==
    /\ CanTick(gt)
    /\ gt' = tick(gt)
    /\ op' = "tick"
    /\ UNCHANGED notTimerVars

NextTimer ==
    \/ CallStart
    \/ CallStop
    \/ CallReset
    \/ Expire
    \/ RecvTimeout
    \/ ClearActive
    \/ Tick

SpecTimer == InitTimer /\ [][NextTimer]_vars

\* C9: a Reset() called less than the debounce after the previous effective
\* reset changes nothing: the armed instance, its remaining duration,
\* isActive and lastReset are as before
C9_DebouncedResetIsNoOp ==
    [][(op' = "Reset" /\ gt.since < ResetDebounce) => gt' = gt]_vars

\* a debounced Reset() has been called on an armed timer part of whose
\* duration has already run
C9_Witness ==
    /\ op = "Reset"
    /\ gt.since = 1
    /\ gt.isActive
    /\ gt.timer # 0
    /\ gt.inst[gt.timer].st = "armed"
    /\ gt.inst[gt.timer].rem < gt.duration

\* C10: the timer never has more than one armed instance
C10_AtMostOneArmed == Cardinality(Armed(gt)) <= 1

\* C11: IsActive() is true exactly when a timer instance is armed (started,
\* neither stopped nor expired).
C11_IsActiveIffArmed == IsActive(gt) <=> Armed(gt) # {}

(***************************************************************************)
(* The pattern matcher on its own: detections on arbitrary texts, with the *)
(* rules file edited in between.                                           *)
(***************************************************************************)
InitMatcher ==
    /\ \E c \in ConfigNames : pm = [config |-> c, fileNewer |-> FALSE, err |-> FALSE] /\ pmFile = c
    /\ pmText \in Texts
    /\ pmResult = "none"
    /\ pmFirst = "none"
    /\ TimerIdle
    /\ FlowIdle
    /\ ServerIdle
    /\ PureIdle

\* a transcript is checked (again) for an interrupt
Detect ==
    \E ord \in Orders(DOMAIN Cfg(reloadConfigIfNeeded(pm, pmFile).config).Interrupts) :
        LET r == DetectInterrupt(pm, pmFile, pmText, ord)
        IN  /\ pm' = r.pm
            /\ pmResult' = r.rule
            /\ pmFirst' = IF pmFirst = "none" \/ r.pm.config # pm.config THEN r.rule ELSE pmFirst
            /\ UNCHANGED <<pmFile, pmText>>
            /\ UNCHANGED notMatcherVars

\* the next transcript arrives
NewText ==
    /\ pmResult # "none"
    /\ pmText' \in Texts
    /\ pmResult' = "none"
    /\ pmFirst' = "none"
    /\ UNCHANGED <<pm, pmFile>>
    /\ UNCHANGED notMatcherVars

\* somebody edits the rules file
EditFile ==
    /\ pmFile' \in (ConfigNames \cup {"bad"}) \ {pmFile}
    /\ pm' = [pm EXCEPT !.fileNewer = TRUE]
    /\ UNCHANGED <<pmText, pmResult, pmFirst>>
    /\ UNCHANGED notMatcherVars

NextMatcher ==
    \/ Detect
    \/ NewText
    \/ EditFile

SpecMatcher == InitMatcher /\ [][NextMatcher]_vars

\* C8: the rule DetectInterrupt returns has the smallest priority among the
\* rules whose patterns match the text, and a repeated detection on the same
\* rule set and text returns the same rule
C8_MinPriorityReturned ==
    /\ pmResult \notin {"none", "nil"} =>
          \A k \in Matching(pm.config, pmText) :
              Cfg(pm.config).Interrupts[pmResult].Priority <= Cfg(pm.config).Interrupts[k].Priority
    /\ pmResult # "none" => pmResult = pmFirst

\* C20: when a reload fails (the rules file cannot be read or parsed), the rule
\* set in use afterwards is the one loaded before, and the detection that
\* triggered the reload returns what that rule set gives for the text.
C20_FailedReloadKeepsRules ==
    [][(/\ pmFile = "bad"
        /\ Cfg(pm.config).Settings.ReloadOnDetection
        /\ pm.fileNewer
        /\ pmFile' = pmFile
        /\ pmText' = pmText
        /\ pmResult' # "none")
       => /\ pm'.err
          /\ pm'.config = pm.config
          /\ IF Matching(pm.config, pmText) = {}
             THEN pmResult' = "nil"
             ELSE pmResult' \in Matching(pm.config, pmText)]_vars

\* a detection whose reload failed returned a rule of the rule set kept
C20_Witness ==
    /\ pmFile = "bad"
    /\ pm.err
    /\ pm.fileNewer
    /\ pmResult \notin {"none", "nil"}
    /\ pmResult \in Matching(pm.config, pmText)

(***************************************************************************)
(* The session: the flow engine's goroutine, the playback goroutines it    *)
(* starts, the forwarders of GetTranscriptionResults, the transcriber and  *)
(* the timer callbacks.                                                    *)
(***************************************************************************)
Init ==
    /\ flow \in FlowNames
    /\ fe = NewFlowEngine
    /\ sess = NewSession
    /\ pb = <<>>
    /\ fw = <<>>
    /\ asr = [out |-> <<>>, q |-> <<>>]
    /\ conn = <<>>
    /\ recvd = <<>>
    /\ lastTmo = [got |-> FALSE, stale |-> FALSE]
    /\ waits = <<>>
    /\ api = <<>>
    /\ gt = NewGlobalTimer(FlowTicks)
    /\ op = "new"
    /\ MatcherIdle
    /\ ServerIdle
    /\ PureIdle

Cur == NodeOf(flow, fe.currentNode)

\* executeNode can be called (once more, within the bound)
CanExec == fe.pc = "exec" /\ fe.nExec < MaxNodes /\ ~sess.panicked

\* the forwarder whose channel the wait loop reads, and what it holds
CurFw == Len(fw)
Held == asr.out[fw[CurFw].item]
CanRecv == fe.pc = "wait" /\ ~sess.panicked /\ fw[CurFw].st = "send"

\* the transcript the wait loop received last
LastText == asr.out[recvd[Len(recvd)]].Text

\* the wait loop has received what its forwarder held
tookResult(f) == [f EXCEPT ![Len(f)] = [st |-> "recv", item |-> 0]]

\* the wait of the current entry ends
endWait(w, why, kind, entered) ==
    [w EXCEPT ![Len(w)] = [@ EXCEPT !.ended = TRUE, !.why = why, !.kind = kind,
                                    !.fired = IF entered THEN @ + 1 ELSE @]]

\* the prompt the engine plays itself has been played (or there is none)
PromptOver ==
    /\ fe.pc = "prompt"
    /\ fe.playing # 0 => pb[fe.playing].st \in {"done", "stopped"}

\* FlowEngine.Start
Start ==
    /\ fe.pc = "start"
    /\ fe' = IF findNode(flow, "start") = 0
             THEN [fe EXCEPT !.isActive = TRUE, !.pc = "done"]
             ELSE [fe EXCEPT !.isActive = TRUE, !.currentNode = "start", !.pc = "exec"]
    /\ UNCHANGED <<gt, op, pm, pmFile, pmText, pmResult, pmFirst, flow, sess, pb, fw, asr, conn, recvd, lastTmo, waits, api, serverVars, pureVars>>

\* executeNode on an audio node
handleAudioNode ==
    /\ CanExec
    /\ Cur.Type = "audio"
    /\ pb' = Append(pb, spawnPlayback(Cur.AudioFile))
    /\ LET nextNodeID == Lookup(Cur.Transitions, "default")
       IN  fe' = IF nextNodeID = "" \/ findNode(flow, nextNodeID) = 0
                 THEN [fe EXCEPT !.pc = "done", !.nExec = @ + 1]
                 ELSE [fe EXCEPT !.currentNode = nextNodeID, !.nExec = @ + 1]
    /\ UNCHANGED <<gt, op, pm, pmFile, pmText, pmResult, pmFirst, flow, sess, fw, asr, conn, recvd, lastTmo, waits, api, serverVars, pureVars>>

\* executeNode on a question node, up to the select of waitForResponse
handleQuestionNode ==
    /\ CanExec
    /\ Cur.Type = "question"
    /\ CanStart(gt)
    /\ pb' = Append(pb, spawnPlayback(Cur.AudioFile))
    /\ gt' = GlobalTimerStart(gt)
    /\ fw' = Append(fw, [st |-> "recv", item |-> 0])
    /\ waits' = Append(waits, [node |-> Cur.ID, fired |-> 0, ended |-> FALSE,
                               why |-> "", kind |-> "", old |-> Sending(gt)])
    /\ fe' = [fe EXCEPT !.waitingFor = Cur.ID, !.pc = "wait", !.nExec = @ + 1]
    /\ UNCHANGED <<op, pm, pmFile, pmText, pmResult, pmFirst, flow, sess, asr, conn, recvd, lastTmo, api, serverVars, pureVars>>

\* waitForResponse: a non-final result is received
recvPartial ==
    /\ CanRecv
    /\ ~Held.IsFinal
    /\ LET reset == IsActive(gt) /\ Len(Chars(Held.Text)) > 10
       IN  /\ reset => CanReset(gt)
           /\ gt' = IF reset THEN GlobalTimerReset(gt) ELSE gt
    /\ fw' = tookResult(fw)
    /\ recvd' = Append(recvd, fw[CurFw].item)
    /\ UNCHANGED <<op, pm, pmFile, pmText, pmResult, pmFirst, flow, fe, sess, pb, asr, conn, lastTmo, waits, api, serverVars, pureVars>>

\* waitForResponse: a final result with an interrupt is received; HandleInterrupt
\* up to its sleep
recvInterrupt ==
    /\ CanRecv
    /\ Held.IsFinal
    /\ CheckForInterrupt(Held.Text) # ""
    /\ fw' = tookResult(fw)
    /\ recvd' = Append(recvd, fw[CurFw].item)
    /\ gt' = IF IsActive(gt) THEN GlobalTimerStop(gt) ELSE gt
    /\ sess' = StopAudio(sess)
    /\ pb' = markStop(pb)
    /\ fe' = [fe EXCEPT !.lastReason = interruptReason(CheckForInterrupt(Held.Text)),
                        !.next = CheckForInterrupt(Held.Text),
                        !.pc = "interruptSleep"]
    /\ UNCHANGED <<op, pm, pmFile, pmText, pmResult, pmFirst, flow, asr, conn, lastTmo, waits, api, serverVars, pureVars>>

\* a faulty variant of recvFinal: the transcript is classified without the
\* interrupt check
recvFinalUnchecked ==
    /\ CanRecv
    /\ Held.IsFinal
    /\ fw' = tookResult(fw)
    /\ recvd' = Append(recvd, fw[CurFw].item)
    /\ LET responseType == ClassifyResponse(Chars(Held.Text))
           nextNodeID   == responseTarget(Cur, responseType)
       IN  IF nextNodeID # "" /\ findNode(flow, nextNodeID) # 0
           THEN /\ fe' = [fe EXCEPT !.lastReason = IF responseType = "negative" THEN "NI" ELSE @,
                                    !.next = nextNodeID,
                                    !.pc = "responseSleep"]
                /\ sess' = IF fe.waitingFor # "" THEN StopAudio(sess) ELSE sess
                /\ pb' = IF fe.waitingFor # "" THEN markStop(pb) ELSE pb
           ELSE UNCHANGED <<fe, sess, pb>>
    /\ UNCHANGED <<gt, op, pm, pmFile, pmText, pmResult, pmFirst, flow, asr, conn, lastTmo, waits, api, serverVars, pureVars>>

\* a faulty variant of recvFinal: without a transition the wait is given up
recvFinalGivesUp ==
    /\ CanRecv
    /\ Held.IsFinal
    /\ CheckForInterrupt(Held.Text) = ""
    /\ fw' = tookResult(fw)
    /\ recvd' = Append(recvd, fw[CurFw].item)
    /\ LET responseType == ClassifyResponse(Chars(Held.Text))
           nextNodeID   == responseTarget(Cur, responseType)
       IN  IF nextNodeID # "" /\ findNode(flow, nextNodeID) # 0
           THEN /\ fe' = [fe EXCEPT !.lastReason = IF responseType = "negative" THEN "NI" ELSE @,
                                    !.next = nextNodeID,
                                    !.pc = "responseSleep"]
                /\ sess' = IF fe.waitingFor # "" THEN StopAudio(sess) ELSE sess
                /\ pb' = IF fe.waitingFor # "" THEN markStop(pb) ELSE pb
           ELSE fe' = [fe EXCEPT !.pc = "done"] /\ UNCHANGED <<sess, pb>>
    /\ UNCHANGED <<gt, op, pm, pmFile, pmText, pmResult, pmFirst, flow, asr, conn, lastTmo, waits, api, serverVars, pureVars>>

\* waitForResponse: a final result without interrupt is received and classified;
\* with a transition, up to the sleep after StopAudio
recvFinal ==
    /\ CanRecv
    /\ Held.IsFinal
    /\ CheckForInterrupt(Held.Text) = ""
    /\ fw' = tookResult(fw)
    /\ recvd' = Append(recvd, fw[CurFw].item)
    /\ LET responseType == ClassifyResponse(Chars(Held.Text))
           nextNodeID   == responseTarget(Cur, responseType)
       IN  IF nextNodeID # "" /\ findNode(flow, nextNodeID) # 0
           THEN /\ fe' = [fe EXCEPT !.lastReason = IF responseType = "negative" THEN "NI" ELSE @,
                                    !.next = nextNodeID,
                                    !.pc = "responseSleep"]
                /\ sess' = IF fe.waitingFor # "" THEN StopAudio(sess) ELSE sess
                /\ pb' = IF fe.waitingFor # "" THEN markStop(pb) ELSE pb
           ELSE UNCHANGED <<fe, sess, pb>>
    /\ UNCHANGED <<gt, op, pm, pmFile, pmText, pmResult, pmFirst, flow, asr, conn, lastTmo, waits, api, serverVars, pureVars>>

\* waitForResponse after the sleep: the timer is stopped and the next node executed
responseTransition ==
    /\ fe.pc = "responseSleep"
    /\ gt' = GlobalTimerStop(gt)
    /\ waits' = endWait(waits, "response", ClassifyResponse(Chars(LastText)), TRUE)
    /\ fe' = [fe EXCEPT !.waitingFor = "", !.currentNode = fe.next, !.next = "", !.pc = "exec"]
    /\ UNCHANGED <<op, pm, pmFile, pmText, pmResult, pmFirst, flow, sess, pb, fw, asr, conn, recvd, lastTmo, api, serverVars, pureVars>>

\* a faulty variant of interruptTransition: without an interrupt node the wait
\* is given up all the same
interruptTransitionClearsWait ==
    /\ fe.pc = "interruptSleep"
    /\ waits' = endWait(waits, "interrupt", fe.next, findNode(flow, fe.next) # 0)
    /\ fe' = IF findNode(flow, fe.next) # 0
             THEN [fe EXCEPT !.waitingFor = "", !.currentNode = fe.next, !.next = "",
                             !.pc = "exec"]
             ELSE [fe EXCEPT !.waitingFor = "", !.next = "", !.pc = "done"]
    /\ UNCHANGED <<gt, op, pm, pmFile, pmText, pmResult, pmFirst, flow, sess, pb, fw, asr, conn, recvd, lastTmo, api, serverVars, pureVars>>

\* HandleInterrupt after the sleep: the interrupt node is executed, if there is one
interruptTransition ==
    /\ fe.pc = "interruptSleep"
    /\ waits' = endWait(waits, "interrupt", fe.next, findNode(flow, fe.next) # 0)
    /\ fe' = IF findNode(flow, fe.next) # 0
             THEN [fe EXCEPT !.waitingFor = "", !.currentNode = fe.next, !.next = "",
                             !.pc = "exec"]
             ELSE [fe EXCEPT !.next = "", !.pc = "done"]
    /\ UNCHANGED <<gt, op, pm, pmFile, pmText, pmResult, pmFirst, flow, sess, pb, fw, asr, conn, recvd, lastTmo, api, serverVars, pureVars>>

\* waitForResponse: a timeout signal is received; handleTimeout up to its sleep
recvTimeout ==
    \E j \in Sending(gt) :
        /\ fe.pc = "wait"
        /\ ~sess.panicked
        /\ gt' = received(gt, j)
        /\ lastTmo' = [got |-> TRUE, stale |-> j \in waits[Len(waits)].old]
        /\ sess' = IF fe.waitingFor # "" THEN StopAudio(sess) ELSE sess
        /\ pb' = IF fe.waitingFor # "" THEN markStop(pb) ELSE pb
        /\ fe' = [fe EXCEPT !.pc = IF fe.waitingFor # "" THEN "timeoutSleep" ELSE "done"]
        /\ UNCHANGED <<op, pm, pmFile, pmText, pmResult, pmFirst, flow, fw, asr, conn, recvd, waits, api, serverVars, pureVars>>

\* handleTimeout after the sleep: the timeout node is executed, if there is one
timeoutTransition ==
    /\ fe.pc = "timeoutSleep"
    /\ LET nextNodeID == timeoutTarget(NodeOf(flow, fe.waitingFor))
       IN  /\ waits' = endWait(waits, "timeout", "", findNode(flow, nextNodeID) # 0)
           /\ fe' = IF findNode(flow, nextNodeID) # 0
                    THEN [fe EXCEPT !.waitingFor = "", !.currentNode = nextNodeID,
                                    !.pc = "exec"]
                    ELSE [fe EXCEPT !.pc = "done"]
    /\ UNCHANGED <<gt, op, pm, pmFile, pmText, pmResult, pmFirst, flow, sess, pb, fw, asr, conn, recvd, lastTmo, api, serverVars, pureVars>>

\* executeNode on a hangup node: the call of PlayAudio (if the node has a prompt)
handleHangupNode ==
    /\ CanExec
    /\ Cur.Type = "hangup"
    /\ IF Cur.AudioFile # ""
       THEN /\ pb' = Append(pb, callPlayback(Cur.AudioFile, sess))
            /\ fe' = IF callPlayback(Cur.AudioFile, sess).st = "error"
                     THEN [fe EXCEPT !.pc = "done", !.nExec = @ + 1]
                     ELSE [fe EXCEPT !.pc = "prompt", !.playing = Len(pb) + 1,
                                     !.nExec = @ + 1]
       ELSE /\ pb' = pb
            /\ fe' = [fe EXCEPT !.pc = "prompt", !.playing = 0, !.nExec = @ + 1]
    /\ UNCHANGED <<gt, op, pm, pmFile, pmText, pmResult, pmFirst, flow, sess, fw, asr, conn, recvd, lastTmo, waits, api, serverVars, pureVars>>

\* executeNode on a transfer node: the call of PlayAudio
handleTransferNode ==
    /\ CanExec
    /\ Cur.Type = "transfer"
    /\ IF TRUE
       THEN /\ pb' = Append(pb, callPlayback(Cur.AudioFile, sess))
            /\ fe' = IF callPlayback(Cur.AudioFile, sess).st = "error"
                     THEN [fe EXCEPT !.pc = "done", !.nExec = @ + 1]
                     ELSE [fe EXCEPT !.pc = "prompt", !.playing = Len(pb) + 1,
                                     !.nExec = @ + 1]
       ELSE /\ pb' = pb
            /\ fe' = [fe EXCEPT !.pc = "prompt", !.playing = 0, !.nExec = @ + 1]
    /\ UNCHANGED <<gt, op, pm, pmFile, pmText, pmResult, pmFirst, flow, sess, fw, asr, conn, recvd, lastTmo, waits, api, serverVars, pureVars>>

\* executeNode on a interrupt node: the call of PlayAudio (if the node has a prompt)
handleInterruptNode ==
    /\ CanExec
    /\ Cur.Type = "interrupt"
    /\ IF Cur.AudioFile # ""
       THEN /\ pb' = Append(pb, callPlayback(Cur.AudioFile, sess))
            /\ fe' = IF callPlayback(Cur.AudioFile, sess).st = "error"
                     THEN [fe EXCEPT !.pc = "done", !.nExec = @ + 1]
                     ELSE [fe EXCEPT !.pc = "prompt", !.playing = Len(pb) + 1,
                                     !.nExec = @ + 1]
       ELSE /\ pb' = pb
            /\ fe' = [fe EXCEPT !.pc = "prompt", !.playing = 0, !.nExec = @ + 1]
    /\ UNCHANGED <<gt, op, pm, pmFile, pmText, pmResult, pmFirst, flow, sess, fw, asr, conn, recvd, lastTmo, waits, api, serverVars, pureVars>>

\* handleHangupNode after the prompt: actions, the hangup call, EndCall
hangupNodeRest ==
    /\ PromptOver
    /\ Cur.Type = "hangup"
    /\ LET st == executeActions([lastReason |-> fe.lastReason, calls |-> api], Cur.Actions)
       IN  /\ api' = IF ~hasEndCallAction(Cur.Actions)
                     THEN Append(st.calls,
                                 [stage |-> "HANGUP", status |-> hangupStatus(st.lastReason)])
                     ELSE st.calls
           /\ fe' = [fe EXCEPT !.lastReason = st.lastReason, !.isActive = FALSE,
                               !.playing = 0, !.pc = "done"]
    /\ conn' = EndCall(conn)
    /\ UNCHANGED <<gt, op, pm, pmFile, pmText, pmResult, pmFirst, flow, sess, pb, fw, asr, recvd, lastTmo, waits, serverVars, pureVars>>

\* handleTransferNode after the prompt: actions, the transfer call
transferNodeRest ==
    /\ PromptOver
    /\ Cur.Type = "transfer"
    /\ LET st == executeActions([lastReason |-> fe.lastReason, calls |-> api], Cur.Actions)
       IN  /\ api' = Append(st.calls, [stage |-> "EXTENSIONTRANSFER", status |-> "XFER"])
           /\ fe' = [fe EXCEPT !.lastReason = st.lastReason, !.transferred = TRUE,
                               !.isActive = FALSE, !.playing = 0, !.pc = "done"]
    /\ UNCHANGED <<gt, op, pm, pmFile, pmText, pmResult, pmFirst, flow, sess, pb, fw, asr, conn, recvd, lastTmo, waits, serverVars, pureVars>>

\* handleInterruptNode after the prompt: actions, then the default transition if any
interruptNodeRest ==
    /\ PromptOver
    /\ Cur.Type = "interrupt"
    /\ LET st == executeActions([lastReason |-> fe.lastReason, calls |-> api], Cur.Actions)
           nextNodeID == Lookup(Cur.Transitions, "default")
       IN  /\ api' = st.calls
           /\ fe' = IF nextNodeID # "" /\ findNode(flow, nextNodeID) # 0
                    THEN [fe EXCEPT !.lastReason = st.lastReason, !.currentNode = nextNodeID,
                                    !.playing = 0, !.pc = "exec"]
                    ELSE [fe EXCEPT !.lastReason = st.lastReason, !.isActive = FALSE,
                                    !.playing = 0, !.pc = "done"]
    /\ UNCHANGED <<gt, op, pm, pmFile, pmText, pmResult, pmFirst, flow, sess, pb, fw, asr, conn, recvd, lastTmo, waits, serverVars, pureVars>>

\* a playback goroutine starts to run: Session.PlayAudio
PlayAudio ==
    \E p \in DOMAIN pb :
        /\ pb[p].st = "spawned"
        /\ pb' = [pb EXCEPT ![p] = enterPlayAudio(pb[p], sess)]
        /\ UNCHANGED <<gt, op, pm, pmFile, pmText, pmResult, pmFirst, flow, fe, sess, fw, asr, conn, recvd, lastTmo, waits, api, serverVars, pureVars>>

\* a player checks its stop channel and writes its next chunk to the connection
PlayAudioWithStop ==
    \E p \in DOMAIN pb :
        /\ pb[p].st = "playing"
        /\ pb' = [pb EXCEPT ![p] = playChunk(pb[p], sess)]
        /\ conn' = IF pb[p].chan \in sess.closed THEN conn ELSE Append(conn, AudioFrame(p))
        /\ UNCHANGED <<gt, op, pm, pmFile, pmText, pmResult, pmFirst, flow, fe, sess, fw, asr, recvd, lastTmo, waits, api, serverVars, pureVars>>

\* a goroutine of GetTranscriptionResults takes the next result from
\* transcriber.Results(); it then blocks in the send on its own channel
forward ==
    \E e \in DOMAIN fw :
        /\ fw[e].st = "recv"
        /\ asr.q # <<>>
        /\ fw' = [fw EXCEPT ![e] = [st |-> "send", item |-> Head(asr.q)]]
        /\ asr' = [asr EXCEPT !.q = Tail(@)]
        /\ UNCHANGED <<gt, op, pm, pmFile, pmText, pmResult, pmFirst, flow, fe, sess, pb, conn, recvd, lastTmo, waits, api, serverVars, pureVars>>

\* the transcriber puts a result on its results channel (capacity 100)
handleResults ==
    \E r \in Transcripts(flow) :
        /\ Len(asr.out) < MaxResults
        /\ asr' = [out |-> Append(asr.out, r), q |-> Append(asr.q, Len(asr.out) + 1)]
        /\ UNCHANGED <<gt, op, pm, pmFile, pmText, pmResult, pmFirst, flow, fe, sess, pb, fw, conn, recvd, lastTmo, waits, api, serverVars, pureVars>>

\* a timer instance expires: its callback starts and blocks in the send
timerExpires ==
    \E j \in Armed(gt) :
        /\ gt.inst[j].rem = 0
        /\ gt' = fire(gt, j)
        /\ UNCHANGED <<op, pm, pmFile, pmText, pmResult, pmFirst, flow, fe, sess, pb, fw, asr, conn, recvd, lastTmo, waits, api, serverVars, pureVars>>

\* a timer callback whose send was received sets isActive = false
timerCallbackEnds ==
    \E j \in Slots :
        /\ gt.inst[j].st = "delivered"
        /\ gt' = clearActive(gt, j)
        /\ UNCHANGED <<op, pm, pmFile, pmText, pmResult, pmFirst, flow, fe, sess, pb, fw, asr, conn, recvd, lastTmo, waits, api, serverVars, pureVars>>

\* 250 ms pass
timePasses ==
    /\ CanTick(gt)
    /\ gt' = tick(gt)
    /\ UNCHANGED <<op, pm, pmFile, pmText, pmResult, pmFirst, flow, fe, sess, pb, fw, asr, conn, recvd, lastTmo, waits, api, serverVars, pureVars>>

Next ==
    \/ Start
    \/ handleAudioNode
    \/ handleQuestionNode
    \/ recvPartial
    \/ recvInterrupt
    \/ recvFinal
    \/ responseTransition
    \/ interruptTransition
    \/ recvTimeout
    \/ timeoutTransition
    \/ handleHangupNode
    \/ handleTransferNode
    \/ handleInterruptNode
    \/ hangupNodeRest
    \/ transferNodeRest
    \/ interruptNodeRest
    \/ PlayAudio
    \/ PlayAudioWithStop
    \/ forward
    \/ handleResults
    \/ timerExpires
    \/ timerCallbackEnds
    \/ timePasses

Spec == Init /\ [][Next]_vars


(***************************************************************************)
(* Properties of the session                                               *)
(***************************************************************************)

\* C1: every wait of a question node fires at most one transition, and when
\* the wait has ended exactly one: it never ends without a next node having
\* been entered; and while the engine waits, a timer instance is armed or its
\* signal is pending.
C1_ExactlyOneTransition ==
    /\ \A e \in DOMAIN waits :
          /\ waits[e].fired <= 1
          /\ waits[e].ended => waits[e].fired = 1
    /\ fe.pc = "wait" => Armed(gt) \cup Sending(gt) # {}

\* C2: the audio frames on the connection are grouped by playback in the order
\* the playbacks were requested: no frame of an earlier prompt follows a frame
\* of a later one.
C2_OnePlaybackAtATime ==
    \A i, k \in DOMAIN conn :
        (i < k /\ conn[i].kind = "audio" /\ conn[k].kind = "audio")
            => conn[i].pb <= conn[k].pb

\* C3: the timeout signal a question node receives comes from an arming made
\* during its own wait, never from an arming of an earlier node, on which
\* stop() was called when that node was left.
C3_NoTimeoutAfterStop == lastTmo.got => ~lastTmo.stale

\* C4: the wait loops receive the transcriber's results in the order of
\* arrival, none skipped or repeated, and while the engine waits no result is
\* held by the consumer of an earlier question node.
C4_ResultsInArrivalOrder ==
    /\ \A i \in DOMAIN recvd : recvd[i] = i
    /\ fe.pc = "wait" => \A e \in DOMAIN fw : e < Len(fw) => fw[e].st # "send"

\* C5: no audio frame follows the hangup frame on the connection.
C5_HangupAfterAllAudio ==
    \A i, k \in DOMAIN conn :
        (i < k /\ conn[i].kind = "hangup") => conn[k].kind # "audio"

\* C6: a playback requested before StopAudio was called writes no chunk whose
\* stop check came after that call.
C6_StopPreemptsEveryEarlierPlayback == \A p \in DOMAIN pb : ~pb[p].late

\* C7: a playback stops only by a StopAudio called after it was requested,
\* StopAudio never panics, and every stop channel but the current one has been
\* closed, once.
C7_StopSignalOneShotRecreated ==
    /\ \A p \in DOMAIN pb : pb[p].st = "stopped" => pb[p].stopReq
    /\ ~sess.panicked
    /\ sess.closed = 0 .. (sess.stopAudioChan - 1)

\* a prompt requested after a StopAudio has been played to its end
C7_Witness ==
    /\ flow = "main"
    /\ Len(pb) >= 2
    /\ pb[1].st = "stopped"
    /\ pb[2].st = "done"
    /\ pb[2].chan = 1
    /\ ~pb[2].stopReq

\* C22: when the pattern matcher matches the rule with id k on a final
\* transcript, the hangup reason set by the engine, and the status of the
\* HANGUP call that follows, is the code of k: dnc DNC, not_interested NI,
\* robot DNQ, amd A, callback CALLBK, any other id DNQ.
C22_ReasonCodeOfMatchedRule ==
    LET code(k) == CASE k = "dnc"            -> "DNC"
                     [] k = "not_interested" -> "NI"
                     [] k = "robot"          -> "DNQ"
                     [] k = "amd"            -> "A"
                     [] k = "callback"       -> "CALLBK"
                     [] OTHER                -> "DNQ"
        dispatched == waits # <<>> /\ waits[Len(waits)].why = "interrupt"
    IN  (recvd # <<>> /\ (fe.pc = "interruptSleep" \/ dispatched)) =>
            \A k \in Matching("session", Chars(LastText)) :
                /\ fe.pc = "interruptSleep" => fe.lastReason = code(k)
                /\ dispatched =>
                       \A i \in DOMAIN api :
                           api[i].stage = "HANGUP" => api[i].status = code(k)

\* C23: when a question node times out and the flow reaches a hangup node,
\* with no interrupt detected and no reason-setting action executed during
\* the call, the HANGUP call carries the status DC.  (Only the interrupt node
\* of the flow "main" has a reason-setting action.)
C23_TimeoutHangupReportsDC ==
    \A i \in DOMAIN api :
        (/\ api[i].stage = "HANGUP"
         /\ waits # <<>>
         /\ waits[Len(waits)].why = "timeout"
         /\ \A w \in DOMAIN waits : waits[w].why # "interrupt")
            => api[i].status = "DC"

\* C23 as amended: the same, provided also that no answer classified negative
\* caused a transition during the call.
C23_TimeoutHangupReportsDCUnlessNegative ==
    \A i \in DOMAIN api :
        (/\ api[i].stage = "HANGUP"
         /\ waits # <<>>
         /\ waits[Len(waits)].why = "timeout"
         /\ \A w \in DOMAIN waits :
               /\ waits[w].why # "interrupt"
               /\ ~(waits[w].why = "response" /\ waits[w].kind = "negative"))
            => api[i].status = "DC"

\* a question was asked again after a timeout, timed out again, and the call
\* was hung up
C23_Witness ==
    /\ flow = "retry"
    /\ Len(waits) = 2
    /\ waits[1].why = "timeout"
    /\ waits[2].why = "timeout"
    /\ api = <<[stage |-> "HANGUP", status |-> "DC"]>>

\* the wait loop of a question node receives a non-final transcript
PartialReceived ==
    /\ fe.pc = "wait"
    /\ Len(recvd') = Len(recvd) + 1
    /\ ~asr.out[recvd'[Len(recvd')]].IsFinal

\* C27: in a question node a non-final transcript causes no transition; it
\* resets the global timer exactly when its text is longer than 10 characters,
\* a timer instance is armed and the reset is not debounced; after a reset
\* the timeout is a full duration away, otherwise the timer is as it was.
C27_PartialResetsArmedTimerOnly ==
    [][PartialReceived =>
          LET text  == Chars(asr.out[recvd'[Len(recvd')]].Text)
              reset == Len(text) > 10 /\ Armed(gt) # {} /\ gt.since >= ResetDebounce
          IN  /\ fe' = fe
              /\ waits' = waits
              /\ reset => /\ Armed(gt') # {}
                          /\ \A j \in Armed(gt') : gt'.inst[j].rem = gt.duration
                          /\ Sending(gt') = {}
              /\ ~reset => gt' = gt]_vars

\* what holds of a non-final transcript: no transition, and the reset happens
\* exactly when the text is longer than 10 characters, isActive is set and
\* the reset is not debounced
PartialResetsActiveTimer ==
    [][PartialReceived =>
          LET text  == Chars(asr.out[recvd'[Len(recvd')]].Text)
              reset == Len(text) > 10 /\ IsActive(gt) /\ gt.since >= ResetDebounce
          IN  /\ fe' = fe
              /\ waits' = waits
              /\ reset => /\ Armed(gt') # {}
                          /\ \A j \in Armed(gt') : gt'.inst[j].rem = gt.duration
              /\ ~reset => gt' = gt]_vars

\* the wait loop of a question node receives a final transcript
FinalReceived ==
    /\ fe.pc = "wait"
    /\ Len(recvd') = Len(recvd) + 1
    /\ asr.out[recvd'[Len(recvd')]].IsFinal

\* C28: on a final transcript in a question node the interrupt check comes
\* first: when it finds an interrupt the flow leaves the node by the dispatch
\* of that interrupt, whatever the classifier would say; otherwise the target
\* is transitions[label], else transitions["default"], and with neither (or a
\* target that is no node) the flow stays in the node.  A wait left by the
\* dispatch ends as an interrupt, one left by a target as a response.
C28_InterruptCheckBeforeClassification ==
    [][/\ FinalReceived =>
             LET text   == asr.out[recvd'[Len(recvd')]].Text
                 tr     == NodeOf(flow, fe.waitingFor).Transitions
                 label  == ClassifyResponse(Chars(text))
                 target == IF label \in DOMAIN tr THEN tr[label]
                           ELSE IF "default" \in DOMAIN tr THEN tr["default"] ELSE ""
             IN  IF CheckForInterrupt(text) # ""
                 THEN fe'.pc = "interruptSleep" /\ fe'.next = CheckForInterrupt(text)
                 ELSE IF target # "" /\ findNode(flow, target) # 0
                      THEN fe'.pc = "responseSleep" /\ fe'.next = target
                      ELSE fe' = fe
       /\ (fe.pc = "interruptSleep" /\ fe' # fe) =>
              /\ waits'[Len(waits')].ended
              /\ waits'[Len(waits')].why = "interrupt"
       /\ (fe.pc = "responseSleep" /\ fe' # fe) =>
              /\ waits'[Len(waits')].why = "response"
              /\ fe'.currentNode = fe.next]_vars

\* a final transcript with a positive keyword and an interrupt left the
\* question node by the interrupt dispatch
C28_Witness ==
    /\ waits # <<>>
    /\ waits[Len(waits)].why = "interrupt"
    /\ recvd # <<>>
    /\ LastText = "yes machine"
    /\ ClassifyResponse(Chars(LastText)) = "positive"
    /\ CheckForInterrupt(LastText) # ""

\* a final transcript without interrupt left the question node by its label
C28_WitnessResponse ==
    /\ waits # <<>>
    /\ waits[Len(waits)].why = "response"
    /\ recvd # <<>>
    /\ CheckForInterrupt(LastText) = ""

\* the wait loop of a question node receives the timeout signal
TimeoutReceived ==
    /\ fe.pc = "wait"
    /\ \E j \in Sending(gt) : gt'.inst[j].st = "delivered"

\* handleTimeout's target for the node waited for
timeoutNodeID ==
    LET tr == NodeOf(flow, fe.waitingFor).Transitions
    IN  IF "timeout" \in DOMAIN tr THEN tr["timeout"] ELSE "end_call"

\* C29: on a timeout in a question node the flow stops playback and then
\* enters the node named by transitions["timeout"] if the label is present,
\* otherwise the node "end_call": every timeout ends with that node entered.
C29_TimeoutEntersTarget ==
    [][/\ TimeoutReceived =>
             /\ fe'.pc = "timeoutSleep"
             /\ \A p \in DOMAIN pb : Unfinished(pb[p]) => pb'[p].stopReq
       /\ (fe.pc = "timeoutSleep" /\ fe' # fe) =>
             /\ findNode(flow, timeoutNodeID) # 0
             /\ fe'.currentNode = timeoutNodeID
             /\ fe'.pc = "exec"
             /\ waits'[Len(waits')].fired = waits[Len(waits)].fired + 1]_vars

\* what holds of a timeout: playback is stopped, and the target is entered
\* when the flow has a node of that id; otherwise no node is entered
TimeoutEntersTargetIfNode ==
    [][/\ TimeoutReceived =>
             /\ fe'.pc = "timeoutSleep"
             /\ \A p \in DOMAIN pb : Unfinished(pb[p]) => pb'[p].stopReq
       /\ (fe.pc = "timeoutSleep" /\ fe' # fe) =>
             IF findNode(flow, timeoutNodeID) # 0
             THEN /\ fe'.currentNode = timeoutNodeID
                  /\ fe'.pc = "exec"
                  /\ waits'[Len(waits')].fired = waits[Len(waits)].fired + 1
             ELSE /\ fe'.currentNode = fe.currentNode
                  /\ fe'.nExec = fe.nExec
                  /\ waits'[Len(waits')].fired = waits[Len(waits)].fired]_vars

\* a timeout entered the node of the "timeout" label
TimeoutLabelTaken ==
    /\ flow = "retry"
    /\ waits # <<>>
    /\ waits[1].why = "timeout"
    /\ waits[1].fired = 1
    /\ fe.currentNode = "again"

\* C30: the dispatch of an interrupt whose kind is the id of no node leaves
\* the flow where it is: currentNode and waitingFor keep their values and no
\* node is entered, in the step that receives the transcript (which stops
\* playback and the active timer) and in the step after the sleep.
C30_DispatchWithoutNodeLeavesFlow ==
    [][/\ (FinalReceived /\ CheckForInterrupt(asr.out[recvd'[Len(recvd')]].Text) # ""
              /\ findNode(flow, CheckForInterrupt(asr.out[recvd'[Len(recvd')]].Text)) = 0) =>
             /\ fe'.currentNode = fe.currentNode
             /\ fe'.waitingFor = fe.waitingFor
             /\ fe'.nExec = fe.nExec
             /\ waits' = waits
             /\ \A p \in DOMAIN pb : Unfinished(pb[p]) => pb'[p].stopReq
             /\ IsActive(gt) => ~IsActive(gt') /\ Armed(gt') = {}
       /\ (fe.pc = "interruptSleep" /\ findNode(flow, fe.next) = 0 /\ fe' # fe) =>
             /\ fe'.currentNode = fe.currentNode
             /\ fe'.waitingFor = fe.waitingFor
             /\ fe'.waitingFor # ""
             /\ fe'.nExec = fe.nExec
             /\ fe'.pc = "done"
             /\ waits'[Len(waits')].fired = waits[Len(waits)].fired
             /\ UNCHANGED <<gt, sess, pb, conn, api>>]_vars

\* an interrupt without a node was dispatched in the question node "start"
C30_Witness ==
    /\ flow = "bare"
    /\ waits # <<>>
    /\ waits[Len(waits)].why = "interrupt"
    /\ waits[Len(waits)].fired = 0
    /\ fe.currentNode = "start"
    /\ fe.waitingFor = "start"
    /\ fe.nExec = 1

\* the hangup messages on the connection
HangupFrames == {i \in DOMAIN conn : conn[i].kind = "hangup"}

\* the execution of a hangup node is over
HangupNodeOver ==
    /\ fe.pc = "done"
    /\ fe.currentNode # ""
    /\ Cur.Type = "hangup"

\* C31: every execution of a hangup node issues EndCall exactly once, after
\* the node's prompt and its hangup call, whatever became of the prompt: the
\* connection never carries two hangup messages, and once the execution is
\* over it carries one, which follows every chunk of the node's prompt.
C31_HangupNodeEndsCall ==
    /\ Cardinality(HangupFrames) <= 1
    /\ HangupNodeOver =>
          /\ Cardinality(HangupFrames) = 1
          /\ Cur.AudioFile # "" =>
                \A i \in DOMAIN conn : \A h \in HangupFrames :
                    (conn[i].kind = "audio" /\ conn[i].pb = Len(pb)) => i < h

\* what holds of a hangup node: EndCall is issued exactly once, after the
\* prompt, unless PlayAudio returned an error, and then it is not issued
HangupNodeEndsCallUnlessError ==
    /\ Cardinality(HangupFrames) <= 1
    /\ HangupNodeOver =>
          IF Cur.AudioFile # "" /\ pb[Len(pb)].st = "error"
          THEN HangupFrames = {} /\ fe.isActive
          ELSE /\ Cardinality(HangupFrames) = 1
               /\ Cur.AudioFile # "" =>
                     \A i \in DOMAIN conn : \A h \in HangupFrames :
                         (conn[i].kind = "audio" /\ conn[i].pb = Len(pb)) => i < h

\* a hangup node played its prompt and ended the call
HangupAfterPrompt ==
    /\ HangupNodeOver
    /\ Cur.AudioFile = "bye.wav"
    /\ pb[Len(pb)].st = "done"
    /\ Cardinality(HangupFrames) = 1

\* the HANGUP boundary calls emitted so far
HangupCalls == {i \in DOMAIN api : api[i].stage = "HANGUP"}

\* the number of explicit /end_call actions of a node
RECURSIVE endCallActions(_)
endCallActions(actions) ==
    IF actions = <<>> THEN 0
    ELSE (IF Head(actions).Type = "api_call" /\ Head(actions).Endpoint = "/end_call"
          THEN 1 ELSE 0) + endCallActions(Tail(actions))

\* C32: a hangup node whose execution completed has emitted exactly one
\* HANGUP call, whatever its action list.
C32_OneHangupCall ==
    (HangupNodeOver /\ HangupFrames # {}) => Cardinality(HangupCalls) = 1

\* what holds of a completed hangup node: it has emitted one HANGUP call for
\* each explicit /end_call action, and one when it has no such action
OneHangupCallPerEndCallAction ==
    (HangupNodeOver /\ HangupFrames # {}) =>
        Cardinality(HangupCalls) =
            IF endCallActions(Cur.Actions) = 0 THEN 1 ELSE endCallActions(Cur.Actions)

\* a hangup node with one explicit /end_call action has completed
OneExplicitEndCall ==
    /\ flow = "explicit"
    /\ HangupNodeOver
    /\ HangupFrames # {}
    /\ api = <<[stage |-> "HANGUP", status |-> "NI"]>>

\* the endpoints that only set the deferred hangup reason, and their reasons
ReasonEndpoints == {"/add_to_dnc", "/mark_not_interested", "/schedule_callback"}
reasonOfEndpoint(ep) ==
    CASE ep = "/add_to_dnc"          -> "DNC"
      [] ep = "/mark_not_interested" -> "NI"
      [] ep = "/schedule_callback"   -> "CALLBK"

\* the reason of the last reason-setting action of a list, "" without one
RECURSIVE lastReasonOf(_)
lastReasonOf(actions) ==
    IF actions = <<>> THEN ""
    ELSE LET a == actions[Len(actions)]
         IN  IF a.Type = "api_call" /\ a.Endpoint \in ReasonEndpoints
             THEN reasonOfEndpoint(a.Endpoint)
             ELSE lastReasonOf(SubSeq(actions, 1, Len(actions) - 1))

\* the reason that the last reason-setting action or interrupt of the call
\* set, seen from a hangup node whose execution is over
reasonSetLast ==
    IF lastReasonOf(Cur.Actions) # "" THEN lastReasonOf(Cur.Actions)
    ELSE IF waits # <<>> /\ waits[Len(waits)].why = "interrupt"
         THEN interruptReason(waits[Len(waits)].kind)
         ELSE ""

\* C33: an api_call action with one of the three reason endpoints emits no
\* boundary call and changes only the deferred hangup reason (DNC, NI,
\* CALLBK); and a completed hangup node has reported, in one HANGUP call, the
\* reason that the last such action or interrupt set.
C33_DeferredReasonReportedOnce ==
    /\ \A ep \in ReasonEndpoints :
          executeAPICall([lastReason |-> fe.lastReason, calls |-> api], ApiCall(ep))
              = [lastReason |-> reasonOfEndpoint(ep), calls |-> api]
    /\ (HangupNodeOver /\ HangupFrames # {} /\ reasonSetLast # "") =>
          \E h \in HangupCalls :
              /\ HangupCalls = {h}
              /\ api[h].status = reasonSetLast

\* what holds: the three actions only set the reason, and every HANGUP call
\* of a completed hangup node carries the reason set last
DeferredReasonInEveryCall ==
    /\ \A ep \in ReasonEndpoints :
          executeAPICall([lastReason |-> fe.lastReason, calls |-> api], ApiCall(ep))
              = [lastReason |-> reasonOfEndpoint(ep), calls |-> api]
    /\ (HangupNodeOver /\ HangupFrames # {} /\ reasonSetLast # "") =>
          /\ HangupCalls # {}
          /\ \A h \in HangupCalls : api[h].status = reasonSetLast

\* the reason of an interrupt and of the action of its node was reported once
ReasonReportedAfterInterrupt ==
    /\ flow = "main"
    /\ HangupNodeOver
    /\ api = <<[stage |-> "HANGUP", status |-> "DNC"]>>

\* the execution of a transfer or hangup node is over
TerminalNodeOver ==
    /\ fe.pc = "done"
    /\ fe.currentNode # ""
    /\ Cur.Type \in {"transfer", "hangup"}

\* C34: once the flow has reached a transfer or hangup node and the node's
\* execution is over, the engine is not active, and from then on it enters
\* no node, arms no timer and requests no playback.
C34_TerminalNodeEndsFlow ==
    /\ [](TerminalNodeOver => ~fe.isActive)
    /\ [][TerminalNodeOver =>
             /\ fe' = fe
             /\ Armed(gt') \subseteq Armed(gt)
             /\ Len(pb') = Len(pb)]_vars

\* what holds: the same, unless the node's PlayAudio returned an error, and
\* then the engine stays active
TerminalNodeEndsFlowUnlessError ==
    /\ [](TerminalNodeOver => (fe.isActive <=> (pb # <<>> /\ pb[Len(pb)].st = "error")))
    /\ [][TerminalNodeOver =>
             /\ fe' = fe
             /\ Armed(gt') \subseteq Armed(gt)
             /\ Len(pb') = Len(pb)]_vars

\* a transfer node has ended the flow
TransferEndedFlow ==
    /\ TerminalNodeOver
    /\ Cur.Type = "transfer"
    /\ fe.transferred
    /\ ~fe.isActive

\* a final transcript without interrupt for which the node has neither the
\* classifier's label nor "default"
Unmatched(node, text) ==
    LET tr    == NodeOf(flow, node).Transitions
        label == ClassifyResponse(Chars(text))
    IN  /\ CheckForInterrupt(text) = ""
        /\ label \notin DOMAIN tr
        /\ "default" \notin DOMAIN tr

\* the first question node has received a final transcript it has no
\* transition for
UnmatchedReceived ==
    /\ Len(waits) = 1
    /\ \E i \in DOMAIN recvd :
          /\ asr.out[recvd[i]].IsFinal
          /\ Unmatched(waits[1].node, asr.out[recvd[i]].Text)

\* C35: after a final transcript for which the question node has neither
\* transitions[label] nor transitions["default"], the flow hangs in that node
\* for ever: the engine keeps waiting and no transition of any kind follows.
C35_UnmatchedFinalHangsForever ==
    UnmatchedReceived =>
        /\ fe.pc = "wait"
        /\ fe.currentNode = waits[1].node
        /\ ~waits[1].ended

\* C35 as amended: such a transcript causes no transition and changes nothing
\* of the engine, the timer or the playback: the flow goes on waiting in the
\* node, where a later transcript or the timeout can still end the wait.
C35_UnmatchedFinalChangesNothing ==
    [][(FinalReceived /\ Unmatched(fe.waitingFor, asr.out[recvd'[Len(recvd')]].Text)) =>
          /\ fe' = fe
          /\ gt' = gt
          /\ UNCHANGED <<sess, pb, waits, conn, api>>]_vars

\* the question node goes on waiting after a transcript without transition
C35_Witness ==
    /\ UnmatchedReceived
    /\ Unmatched(waits[1].node, LastText)
    /\ fe.pc = "wait"
    /\ fe.waitingFor = waits[1].node
    /\ Armed(gt) # {}

\* the timeout ended the wait after a transcript without transition
TimeoutAfterUnmatched ==
    /\ flow = "mute"
    /\ UnmatchedReceived
    /\ waits[1].why = "timeout"
    /\ waits[1].fired = 1
    /\ fe.currentNode = "end_call"

(***************************************************************************)
(* The server on its own: the accept loop, Stop, and the handleConnection  *)
(* goroutines up to the end of their message loops.                        *)
(***************************************************************************)
InitServer ==
    /\ ServerIdle
    /\ TimerIdle
    /\ MatcherIdle
    /\ FlowIdle
    /\ PureIdle

\* Server.Start: net.Listen
Listen ==
    /\ srv.pc = "listen"
    /\ srv' = [srv EXCEPT !.listener = "open", !.pc = "select"]
    /\ UNCHANGED <<hc, notServerVars>>

\* the select at the head of the accept loop
AcceptLoop ==
    /\ srv.pc = "select"
    /\ srv' = [srv EXCEPT !.pc = IF srv.shutdown THEN "returned" ELSE "accept"]
    /\ UNCHANGED <<hc, notServerVars>>

\* listener.Accept returns a connection
Accept ==
    /\ srv.pc = "accept"
    /\ srv.listener = "open"
    /\ Len(hc) < MaxConns
    /\ srv' = [srv EXCEPT !.pc = "add"]
    /\ UNCHANGED <<hc, notServerVars>>

\* listener.Accept fails because the listener was closed
AcceptError ==
    /\ srv.pc = "accept"
    /\ srv.listener = "closed"
    /\ srv' = [srv EXCEPT !.pc = IF srv.shutdown THEN "returned" ELSE "select"]
    /\ UNCHANGED <<hc, notServerVars>>

\* s.wg.Add(1); go s.handleConnection(conn)
Spawn ==
    /\ srv.pc = "add"
    /\ srv' = [srv EXCEPT !.wg = @ + 1, !.pc = "select"]
    /\ hc' = Append(hc, NewConnection)
    /\ UNCHANGED notServerVars

\* Server.Stop: close(s.shutdown)
StopShutdown ==
    /\ srv.stop = "idle"
    /\ srv' = [srv EXCEPT !.shutdown = TRUE, !.stop = "close"]
    /\ UNCHANGED <<hc, notServerVars>>

\* Server.Stop: s.listener.Close() unless the listener is nil
StopListener ==
    /\ srv.stop = "close"
    /\ srv' = [srv EXCEPT !.listener = IF @ = "nil" THEN "nil" ELSE "closed",
                          !.stop = "wait"]
    /\ UNCHANGED <<hc, notServerVars>>

\* Server.Stop: s.wg.Wait() returns
StopWait ==
    /\ srv.stop = "wait"
    /\ srv.wg = 0
    /\ srv' = [srv EXCEPT !.stop = "returned"]
    /\ UNCHANGED <<hc, notServerVars>>

\* a step of handleConnection c that may end it: wg.Done() when it returns
connStep(c, next) ==
    /\ hc' = [hc EXCEPT ![c] = next]
    /\ srv' = IF next.pc = "done" THEN [srv EXCEPT !.wg = @ - 1] ELSE srv
    /\ UNCHANGED notServerVars

\* handleConnection reads the first frame
ReadID ==
    \E c \in DOMAIN hc, frame \in FirstFrames :
        /\ hc[c].pc = "getid"
        /\ connStep(c, readID(hc[c], frame))

\* handleConnection creates the transcriber, the session and the flow engine
\* and starts the engine
StartSession ==
    \E c \in DOMAIN hc, transcriberOk \in BOOLEAN, engineOk \in BOOLEAN :
        /\ hc[c].pc = "transcriber"
        /\ connStep(c, startSession(hc[c], transcriberOk, engineOk))

\* a playback of the session's flow engine writes a frame to the connection
\* (StartAmbientAudio itself writes nothing)
SessionAudio ==
    \E c \in DOMAIN hc :
        /\ hc[c].pc = "loop"
        /\ hc[c].flowEngine
        /\ hc[c].audio < MaxAudio
        /\ connStep(c, [hc[c] EXCEPT !.audio = @ + 1])

\* the WebSocket to the transcription provider breaks
AsrFails ==
    \E c \in DOMAIN hc :
        /\ hc[c].pc = "loop"
        /\ ~hc[c].asrDown
        /\ connStep(c, [hc[c] EXCEPT !.asrDown = TRUE])

\* one round of the message loop
MessageLoop ==
    \E c \in DOMAIN hc, frame \in LoopFrames :
        /\ hc[c].pc = "loop"
        /\ connStep(c, messageLoop(hc[c], frame))

NextServer ==
    \/ Listen
    \/ AcceptLoop
    \/ Accept
    \/ AcceptError
    \/ Spawn
    \/ StopShutdown
    \/ StopListener
    \/ StopWait
    \/ ReadID
    \/ StartSession
    \/ SessionAudio
    \/ AsrFails
    \/ MessageLoop

SpecServer == InitServer /\ [][NextServer]_vars

\* C12: a connection whose first frame is not an ID frame of 16 bytes has
\* ended without an audio frame written, a transcriber or a flow engine.
C12_IdFirstOrNothing ==
    \A c \in DOMAIN hc :
        (hc[c].pc # "getid" /\ ~(hc[c].first.kind = "id" /\ hc[c].first.len = 16))
            => /\ hc[c].pc = "done"
               /\ hc[c].audio = 0
               /\ ~hc[c].transcriber
               /\ ~hc[c].flowEngine

\* a connection whose first frame was an ID frame of the wrong length has ended
C12_Witness ==
    \E c \in DOMAIN hc :
        /\ hc[c].first = Frame("id", 17)
        /\ hc[c].pc = "done"
        /\ hc[c].end = "noid"

\* C18: once Stop has returned, the session of every accepted connection has
\* finished: none is still running.
C18_StopReturnsAfterEverySession ==
    srv.stop = "returned" => \A c \in DOMAIN hc : hc[c].pc = "done"

\* C19: a failure of the transcription upstream does not end the call: the
\* message loop is not left because of it.
C19_AsrFailureDoesNotEndCall ==
    \A c \in DOMAIN hc : hc[c].end # "asr"

(***************************************************************************)
(* The player on its own: one playback of a cached payload by one of the   *)
(* chunk loops.                                                            *)
(***************************************************************************)
InitPlayer ==
    /\ \E fn \in PlayerLoops, len \in PcmLens :
          pl = [fn |-> fn, len |-> len, pos |-> 0, frames |-> <<>>, st |-> "idle"]
    /\ rc = [text |-> <<>>, result |-> "none"]
    /\ rs = [in |-> <<>>, out |-> <<>>]
    /\ TimerIdle
    /\ MatcherIdle
    /\ FlowIdle
    /\ ServerIdle
    /\ PatternIdle
    /\ CaseIdle
    /\ CodecIdle
    /\ LegacyIdle
    /\ MessagesIdle
    /\ TranscriberIdle
    /\ AdapterIdle

\* the payload is found in the cache and the loop is entered
BeginPlay ==
    /\ pl.st = "idle"
    /\ pl' = beginPlay(pl.fn, pl.len)
    /\ UNCHANGED <<rc, rs, pt, ci, fr, ld, ms, vt, ba, notPureVars>>

\* a chunk is written
SendChunk ==
    /\ pl.st = "playing"
    /\ pl' = sendChunk(pl)
    /\ UNCHANGED <<rc, rs, pt, ci, fr, ld, ms, vt, ba, notPureVars>>

\* PlayAmbientAudioWithPause finds its pause or stop channel ready
StopPlay ==
    /\ pl.st = "playing"
    /\ pl.fn = "PlayAmbientAudioWithPause"
    /\ pl' = stopPlay(pl)
    /\ UNCHANGED <<rc, rs, pt, ci, fr, ld, ms, vt, ba, notPureVars>>

NextPlayer ==
    \/ BeginPlay
    \/ SendChunk
    \/ StopPlay

SpecPlayer == InitPlayer /\ [][NextPlayer]_vars

\* C13: the frames of a playback that ran to its end are the cached payload:
\* the first starts at offset 0, each starts where the one before ended, and
\* together they have the length of the payload.
C13_BytesWrittenEqualCached ==
    pl.st = "done" =>
        /\ \A k \in DOMAIN pl.frames :
              pl.frames[k].off = IF k = 1 THEN 0
                                 ELSE pl.frames[k - 1].off + pl.frames[k - 1].n
        /\ IF pl.frames = <<>> THEN pl.len = 0
           ELSE pl.frames[Len(pl.frames)].off + pl.frames[Len(pl.frames)].n = pl.len

\* C14: a payload of L bytes that was played to its end went out as L div 320
\* frames of 320 bytes and, when L mod 320 is not 0, one last frame of
\* L mod 320 bytes.
C14_FullFramesThenTail ==
    pl.st = "done" =>
        LET full == pl.len \div DefaultSlinChunkSize
            tail == pl.len % DefaultSlinChunkSize
        IN  /\ Len(pl.frames) = full + (IF tail # 0 THEN 1 ELSE 0)
            /\ \A k \in DOMAIN pl.frames :
                  pl.frames[k].n = IF k <= full THEN DefaultSlinChunkSize ELSE tail

(***************************************************************************)
(* The response classifier on its own: texts made of a few words.          *)
(***************************************************************************)
ClassifierWords ==
    {<<"y", "e", "s">>, <<"Y", "E", "S">>, <<"n", "o">>, <<"N", "o">>,
     <<"o", "k">>, <<"n">>, <<" ">>}

\* the texts of at most n words
RECURSIVE WordsUpTo(_)
WordsUpTo(n) ==
    IF n = 0 THEN {<<>>}
    ELSE WordsUpTo(n - 1) \cup {t \o w : t \in WordsUpTo(n - 1), w \in ClassifierWords}

\* rc.ClassifyResponse(text)
classify(text) == [text |-> text, result |-> ClassifyResponse(text)]

InitClassifier ==
    /\ \E text \in WordsUpTo(MaxWords) : rc = [text |-> text, result |-> "none"]
    /\ pl = [fn |-> "SendSlinChunks", len |-> 0, pos |-> 0, frames |-> <<>>, st |-> "idle"]
    /\ rs = [in |-> <<>>, out |-> <<>>]
    /\ TimerIdle
    /\ MatcherIdle
    /\ FlowIdle
    /\ ServerIdle
    /\ PatternIdle
    /\ CaseIdle
    /\ CodecIdle
    /\ LegacyIdle
    /\ MessagesIdle
    /\ TranscriberIdle
    /\ AdapterIdle

\* the text is classified
Classify ==
    /\ rc.result = "none"
    /\ rc' = classify(rc.text)
    /\ UNCHANGED <<pl, rs, pt, ci, fr, ld, ms, vt, ba, notPureVars>>

\* another text arrives
NextResponse ==
    /\ rc.result # "none"
    /\ \E text \in WordsUpTo(MaxWords) : rc' = [text |-> text, result |-> "none"]
    /\ UNCHANGED <<pl, rs, pt, ci, fr, ld, ms, vt, ba, notPureVars>>

NextClassifier ==
    \/ Classify
    \/ NextResponse

SpecClassifier == InitClassifier /\ [][NextClassifier]_vars

\* C15: the class of a text is negative when a negative keyword is a substring
\* of the lower-cased, trimmed text, else positive when a positive keyword
\* is, else unknown.
C15_NegativeWinsElsePositiveElseUnknown ==
    rc.result # "none" =>
        LET t == ToLower(TrimSpace(rc.text))
            neg == \E i \in DOMAIN negativeKeywords : Contains(t, negativeKeywords[i])
            pos == \E i \in DOMAIN positiveKeywords : Contains(t, positiveKeywords[i])
        IN  /\ rc.result \in {"positive", "negative", "unknown"}
            /\ neg => rc.result = "negative"
            /\ (pos /\ ~neg) => rc.result = "positive"
            /\ (~pos /\ ~neg) => rc.result = "unknown"

\* a text with a positive and a negative keyword, in upper and lower case and
\* with a space in front, was classified
C15_Witness ==
    /\ rc.text = <<" ", "Y", "E", "S", "n", "o">>
    /\ rc.result = "negative"

(***************************************************************************)
(* The 8 kHz to 16 kHz resampler on its own: byte buffers of a few         *)
(* little-endian int16 samples.                                            *)
(***************************************************************************)
\* the int16 with the bits of the uint16 u
int16(u) == IF u >= 32768 THEN u - 65536 ELSE u
\* the uint16 with the bits of the integer x
uint16(x) == x % 65536
\* Go's int16 addition: the sum wraps around
add16(a, b) == int16(uint16(a + b))
\* Go's integer division by two: the quotient is truncated toward zero
half(a) == IF a >= 0 THEN a \div 2 ELSE -((-a) \div 2)
\* binary.LittleEndian.Uint16 and PutUint16
Uint16(b0, b1) == b0 + 256 * b1
PutUint16(u) == <<u % 256, u \div 256>>

\* the samples of a byte buffer
samplesOf(input) ==
    [i \in 1..(Len(input) \div 2) |-> int16(Uint16(input[2 * i - 1], input[2 * i]))]
\* the byte buffer of a sequence of samples
RECURSIVE bytesOf(_)
bytesOf(samples) ==
    IF samples = <<>> THEN <<>>
    ELSE PutUint16(uint16(Head(samples))) \o bytesOf(Tail(samples))

\* a faulty variant of resample8to16: the last sample is not handled
resample8to16NoLast(input) ==
    LET samples == samplesOf(input)
        n == Len(samples)
        upsampled == [k \in 1..(2 * n) |->
            LET i == (k + 1) \div 2
            IN  IF i = n THEN 0
                ELSE IF k % 2 = 1 THEN samples[i]
                     ELSE half(add16(samples[i], samples[i + 1]))]
    IN  bytesOf(upsampled)

resample8to16(input) ==
    LET samples == samplesOf(input)
        n == Len(samples)
        upsampled == [k \in 1..(2 * n) |->
            LET i == (k + 1) \div 2
            IN  IF i = n THEN samples[n]
                ELSE IF k % 2 = 1 THEN samples[i]
                     ELSE half(add16(samples[i], samples[i + 1]))]
    IN  bytesOf(upsampled)

SampleValues == {-32768, -32767, -1, 0, 1, 2, 32767}
RECURSIVE SamplesUpTo(_)
SamplesUpTo(n) ==
    IF n = 0 THEN {<<>>}
    ELSE SamplesUpTo(n - 1) \cup {Append(s, v) : s \in SamplesUpTo(n - 1), v \in SampleValues}
Inputs == {bytesOf(s) : s \in SamplesUpTo(MaxSamples)}

InitResampler ==
    /\ \E input \in Inputs : rs = [in |-> input, out |-> <<>>]
    /\ pl = [fn |-> "SendSlinChunks", len |-> 0, pos |-> 0, frames |-> <<>>, st |-> "idle"]
    /\ rc = [text |-> <<>>, result |-> "none"]
    /\ TimerIdle
    /\ MatcherIdle
    /\ FlowIdle
    /\ ServerIdle
    /\ PatternIdle
    /\ CaseIdle
    /\ CodecIdle
    /\ LegacyIdle
    /\ MessagesIdle
    /\ TranscriberIdle
    /\ AdapterIdle

\* the buffer is resampled
Resample ==
    /\ rs.in # <<>>
    /\ rs.out = <<>>
    /\ rs' = [rs EXCEPT !.out = resample8to16(rs.in)]
    /\ UNCHANGED <<pl, rc, pt, ci, fr, ld, ms, vt, ba, notPureVars>>

\* the next buffer arrives
NextBuffer ==
    /\ rs.in = <<>> \/ rs.out # <<>>
    /\ \E input \in Inputs : rs' = [in |-> input, out |-> <<>>]
    /\ UNCHANGED <<pl, rc, pt, ci, fr, ld, ms, vt, ba, notPureVars>>

NextResampler ==
    \/ Resample
    \/ NextBuffer

SpecResampler == InitResampler /\ [][NextResampler]_vars

\* C16: an input of N samples gives 2N samples, and the output samples at the
\* even indices 0, 2, 4, ... are the input samples.
C16_TwiceAsLongAndEvenSamplesAreInput ==
    rs.out # <<>> =>
        LET in == samplesOf(rs.in)
            out == samplesOf(rs.out)
        IN  /\ Len(rs.out) = 2 * Len(rs.in)
            /\ Len(out) = 2 * Len(in)
            /\ [i \in 1..Len(in) |-> out[2 * i - 1]] = in
            /\ bytesOf([i \in 1..Len(in) |-> out[2 * i - 1]]) = rs.in

\* three samples, negative and positive extremes among them, were resampled
C16_Witness ==
    /\ samplesOf(rs.in) = <<-32768, 32767, -1>>
    /\ Len(rs.out) = 12

\* C17: the output sample between in[i] and in[i+1] is their mean computed
\* without 16-bit wrap-around, so it lies between them; the last input
\* sample is duplicated.
C17_InterpolatedIsMeanWithoutWrap ==
    rs.out # <<>> =>
        LET in == samplesOf(rs.in)
            out == samplesOf(rs.out)
            n == Len(in)
        IN  /\ \A i \in 1..(n - 1) :
                  /\ out[2 * i] = half(in[i] + in[i + 1])
                  /\ \/ in[i] <= out[2 * i] /\ out[2 * i] <= in[i + 1]
                     \/ in[i + 1] <= out[2 * i] /\ out[2 * i] <= in[i]
            /\ out[2 * n] = in[n]

(***************************************************************************)
(* The Required and Alternative patterns on their own: a text, a list of   *)
(* word groups and the settings, evaluated as DetectInterrupt does.        *)
(***************************************************************************)
PatternAlphabet == {"a", "A", "b", " "}
RECURSIVE PatternTexts(_)
PatternTexts(n) ==
    IF n = 0 THEN {<<>>}
    ELSE PatternTexts(n - 1) \cup {Append(s, c) : s \in PatternTexts(n - 1), c \in PatternAlphabet}

PatternWords == {<<"a">>, <<"A">>, <<"a", "b">>}
\* the sequences of at most n elements of S
RECURSIVE ListsUpTo(_, _)
ListsUpTo(S, n) ==
    IF n = 0 THEN {<<>>}
    ELSE ListsUpTo(S, n - 1) \cup {Append(l, x) : l \in ListsUpTo(S, n - 1), x \in S}
WordGroupLists == ListsUpTo(ListsUpTo(PatternWords, MaxGroupWords), MaxGroups)

\* DetectInterrupt's searchText
searchTextOf(settings, text) == IF ~settings.CaseSensitive THEN ToLower(text) ELSE text

InitPattern ==
    /\ \E cs \in BOOLEAN, text \in PatternTexts(MaxTextLen), groups \in WordGroupLists :
          pt = [settings |-> [CaseSensitive |-> cs, ReloadOnDetection |-> FALSE],
                text |-> text, groups |-> groups, done |-> FALSE,
                required |-> FALSE, alternative |-> FALSE,
                combo |-> FALSE, misfiled |-> FALSE, unknown |-> FALSE]
    /\ CaseIdle
    /\ CodecIdle
    /\ LegacyIdle
    /\ MessagesIdle
    /\ TranscriberIdle
    /\ AdapterIdle
    /\ pl = [fn |-> "SendSlinChunks", len |-> 0, pos |-> 0, frames |-> <<>>, st |-> "idle"]
    /\ rc = [text |-> <<>>, result |-> "none"]
    /\ rs = [in |-> <<>>, out |-> <<>>]
    /\ TimerIdle
    /\ MatcherIdle
    /\ FlowIdle
    /\ ServerIdle

\* the groups are evaluated as a required, an alternative and a combo pattern,
\* as a required pattern that has them under the key word_groups, and as a
\* pattern of an unknown type
MatchGroups ==
    /\ ~pt.done
    /\ pt' = [pt EXCEPT
                 !.done = TRUE,
                 !.required = matchesPattern(pt.settings, searchTextOf(pt.settings, pt.text),
                                             Required(pt.groups)),
                 !.alternative = matchesPattern(pt.settings, searchTextOf(pt.settings, pt.text),
                                                Alternative(pt.groups)),
                 !.combo = matchesPattern(pt.settings, searchTextOf(pt.settings, pt.text),
                                          Combo(pt.groups)),
                 !.misfiled = matchesPattern(pt.settings, searchTextOf(pt.settings, pt.text),
                                  [Alternative(pt.groups) EXCEPT !.Type = "required"]),
                 !.unknown = matchesPattern(pt.settings, searchTextOf(pt.settings, pt.text),
                                  [Alternative(pt.groups) EXCEPT !.Type = "regex"])]
    /\ UNCHANGED <<pl, rc, rs, ci, fr, ld, ms, vt, ba, notPureVars>>

\* the next text arrives
NextPatternText ==
    /\ pt.done
    /\ \E text \in PatternTexts(MaxTextLen) :
          pt' = [pt EXCEPT !.text = text, !.done = FALSE,
                           !.required = FALSE, !.alternative = FALSE,
                           !.combo = FALSE, !.misfiled = FALSE, !.unknown = FALSE]
    /\ UNCHANGED <<pl, rc, rs, ci, fr, ld, ms, vt, ba, notPureVars>>

NextPattern ==
    \/ MatchGroups
    \/ NextPatternText

SpecPattern == InitPattern /\ [][NextPattern]_vars

\* C21: a required and an alternative pattern over the same groups give the
\* same result: true exactly when every group has a word that is a substring
\* of a whitespace-separated token of the text (letter case folded unless the
\* settings are case-sensitive).
C21_RequiredSameAsAlternative ==
    pt.done =>
        LET tokens == Fields(pt.text)
            within(word, token) ==
                IF pt.settings.CaseSensitive
                THEN Contains(token, word)
                ELSE Contains(ToLower(token), ToLower(word))
            everyGroup ==
                \A g \in DOMAIN pt.groups :
                    \E k \in DOMAIN pt.groups[g] :
                        \E w \in DOMAIN tokens : within(pt.groups[g][k], tokens[w])
        IN  /\ pt.required = pt.alternative
            /\ pt.required = everyGroup

(***************************************************************************)
(* The frame codec on its own: a frame is serialized and read back.  Bytes *)
(* are numbers 0..255.                                                     *)
(***************************************************************************)
\* the kinds of the protocol: hangup, ID, DTMF, slin, error
Kinds == {0, 1, 3, 16, 255}
PayloadLens == {0, 1, 2, 16, 255, 256, 257, 320, MaxPayload}
\* a payload of n bytes that differ from place to place
payloadOf(n, seed) == [i \in 1..n |-> (i + seed) % 256]

\* a faulty variant of decode: the length is read little-endian
decodeLittleEndian(wire) ==
    LET n == wire[2] + 256 * wire[3]
    IN  [kind |-> wire[1], payload |-> SubSeq(wire, 4, Min(3 + n, Len(wire)))]

\* serialize (kind, payload): one byte of kind, two bytes of big-endian
\* length, the payload
encode(kind, payload) ==
    <<kind, Len(payload) \div 256, Len(payload) % 256>> \o payload

\* read the next frame from the bytes of the stream
decode(wire) ==
    LET n == 256 * wire[2] + wire[3]
    IN  [kind |-> wire[1], payload |-> SubSeq(wire, 4, 3 + n)]

HangupMessage == encode(0, <<>>)

InitCodec ==
    /\ \E kind \in Kinds, n \in PayloadLens, seed \in {0, 1, 255} :
          fr = [kind |-> kind, payload |-> payloadOf(n, seed), wire |-> <<>>,
                st |-> "idle", gotKind |-> 0, gotPayload |-> <<>>]
    /\ PatternIdle
    /\ CaseIdle
    /\ LegacyIdle
    /\ MessagesIdle
    /\ TranscriberIdle
    /\ AdapterIdle
    /\ pl = [fn |-> "SendSlinChunks", len |-> 0, pos |-> 0, frames |-> <<>>, st |-> "idle"]
    /\ rc = [text |-> <<>>, result |-> "none"]
    /\ rs = [in |-> <<>>, out |-> <<>>]
    /\ TimerIdle
    /\ MatcherIdle
    /\ FlowIdle
    /\ ServerIdle

\* the frame is written to the stream
WriteFrame ==
    /\ fr.st = "idle"
    /\ fr' = [fr EXCEPT !.wire = encode(fr.kind, fr.payload), !.st = "written"]
    /\ UNCHANGED <<pl, rc, rs, pt, ci, ld, ms, vt, ba, notPureVars>>

\* the frame is read from the stream
ReadFrame ==
    /\ fr.st = "written"
    /\ fr' = [fr EXCEPT !.gotKind = decode(fr.wire).kind,
                        !.gotPayload = decode(fr.wire).payload,
                        !.st = "read"]
    /\ UNCHANGED <<pl, rc, rs, pt, ci, ld, ms, vt, ba, notPureVars>>

NextCodec ==
    \/ WriteFrame
    \/ ReadFrame

SpecCodec == InitCodec /\ [][NextCodec]_vars

\* C24: a frame read back from its serialization has the kind and the payload
\* that were serialized, the serialization is one byte of kind, two bytes of
\* big-endian length and the payload, and the hangup frame is 0x00 0x00 0x00.
C24_FramingRoundTrips ==
    /\ fr.st \in {"written", "read"} =>
          /\ Len(fr.wire) = 3 + Len(fr.payload)
          /\ fr.wire[1] = fr.kind
          /\ 256 * fr.wire[2] + fr.wire[3] = Len(fr.payload)
          /\ fr.wire[2] \in 0..255 /\ fr.wire[3] \in 0..255
          /\ (fr.kind = 0 /\ fr.payload = <<>>) => fr.wire = <<0, 0, 0>>
    /\ fr.st = "read" => fr.gotKind = fr.kind /\ fr.gotPayload = fr.payload
    /\ HangupMessage = <<0, 0, 0>>

\* a slin frame with the longest payload was read back
C24_Witness ==
    /\ fr.st = "read"
    /\ fr.kind = 16
    /\ Len(fr.payload) = MaxPayload
    /\ Len(fr.gotPayload) = MaxPayload

(***************************************************************************)
(* The legacy InterruptDetector on its own: detections on arbitrary texts  *)
(* while interrupt prompts are played and stopped.                         *)
(***************************************************************************)
\* initializeRules: the four fixed rules, in their order
detectorRules ==
    <<[Type |-> "dnc", AudioFile |-> "dnc.wav", Keywords |->
          <<<<"d", "o", "n", "t", " ", "c", "a", "l", "l", " ", "m", "e">>,
            <<"s", "t", "o", "p", " ", "c", "a", "l", "l", "i", "n", "g", " ", "m", "e">>,
            <<"p", "u", "t", " ", "m", "e", " ", "o", "f", "f", " ", "t", "h", "e", " ", "l", "i", "s", "t">>,
            <<"r", "e", "m", "o", "v", "e", " ", "m", "e">>,
            <<"u", "n", "s", "u", "b", "s", "c", "r", "i", "b", "e">>>>],
      [Type |-> "robot", AudioFile |-> "robot.wav", Keywords |->
          <<<<"a", "r", "e", " ", "y", "o", "u", " ", "a", " ", "r", "o", "b", "o", "t">>,
            <<"a", "m", " ", "i", " ", "t", "a", "l", "k", "i", "n", "g", " ", "t", "o", " ", "a", " ", "r", "o", "b", "o", "t">>,
            <<"a", "r", "e", " ", "y", "o", "u", " ", "h", "u", "m", "a", "n">>,
            <<"i", "s", " ", "t", "h", "i", "s", " ", "a", "u", "t", "o", "m", "a", "t", "e", "d">>,
            <<"r", "o", "b", "o", "t", " ", "v", "o", "i", "c", "e">>>>],
      [Type |-> "ni", AudioFile |-> "bye.wav", Keywords |->
          <<<<"i", " ", "a", "m", " ", "n", "o", "t", " ", "i", "n", "t", "e", "r", "e", "s", "t", "e", "d">>,
            <<"i", " ", "a", "m", " ", "a", "n", "n", "o", "y", "e", "d">>,
            <<"n", "o", "t", " ", "i", "n", "t", "e", "r", "e", "s", "t", "e", "d">>,
            <<"d", "o", "n", "t", " ", "w", "a", "n", "t">>,
            <<"w", "a", "s", "t", "e", " ", "o", "f", " ", "t", "i", "m", "e">>>>],
      [Type |-> "callback", AudioFile |-> "transfer.wav", Keywords |->
          <<<<"i", " ", "a", "m", " ", "b", "u", "s", "y">>,
            <<"i", "n", " ", "a", " ", "m", "e", "e", "t", "i", "n", "g">>,
            <<"c", "a", "l", "l", " ", "m", "e", " ", "b", "a", "c", "k", " ", "l", "a", "t", "e", "r">>,
            <<"c", "a", "l", "l", " ", "b", "a", "c", "k">>,
            <<"b", "u", "s", "y", " ", "n", "o", "w">>>>]>>

\* the words the texts of the detector model are made of
DetectorWords ==
    {<<"r", "e", "m", "o", "v", "e", " ", "m", "e">>, <<"R", "o", "b", "o", "t", " ", "V", "o", "i", "c", "e">>, <<"n", "o", "t", " ", "i", "n", "t", "e", "r", "e", "s", "t", "e", "d">>, <<"c", "a", "l", "l", " ", "b", "a", "c", "k">>, <<" ">>}
RECURSIVE DetectorTexts(_)
DetectorTexts(n) ==
    IF n = 0 THEN {<<>>}
    ELSE DetectorTexts(n - 1) \cup {t \o w : t \in DetectorTexts(n - 1), w \in DetectorWords}

\* the position of the first rule one of whose keywords text contains, 0 for none
firstRule(text) ==
    LET hits == {i \in DOMAIN detectorRules :
                    \E k \in DOMAIN detectorRules[i].Keywords :
                        Contains(text, detectorRules[i].Keywords[k])}
    IN  IF hits = {} THEN 0 ELSE CHOOSE i \in hits : \A k \in hits : i <= k

\* a faulty variant of InterruptDetectorDetect: isPlaying is not looked at
InterruptDetectorDetectWhilePlaying(d, text) ==
    LET i == firstRule(ToLower(text))
    IN  IF i = 0 THEN "nil" ELSE detectorRules[i].Type

\* InterruptDetector.DetectInterrupt: the type of the rule returned, "nil" for none
InterruptDetectorDetect(d, text) ==
    IF d.isPlaying THEN "nil"
    ELSE LET i == firstRule(ToLower(text))
         IN  IF i = 0 THEN "nil" ELSE detectorRules[i].Type

InitLegacy ==
    /\ ld = [isPlaying |-> FALSE, currentInterrupt |-> "", pc |-> "idle",
             text |-> <<>>, wasPlaying |-> FALSE, result |-> "none"]
    /\ PatternIdle
    /\ CaseIdle
    /\ CodecIdle
    /\ MessagesIdle
    /\ TranscriberIdle
    /\ AdapterIdle
    /\ pl = [fn |-> "SendSlinChunks", len |-> 0, pos |-> 0, frames |-> <<>>, st |-> "idle"]
    /\ rc = [text |-> <<>>, result |-> "none"]
    /\ rs = [in |-> <<>>, out |-> <<>>]
    /\ TimerIdle
    /\ MatcherIdle
    /\ FlowIdle
    /\ ServerIdle

\* DetectInterrupt(text)
LegacyDetect ==
    \E text \in DetectorTexts(MaxWords) :
        /\ ld' = [ld EXCEPT !.text = text, !.wasPlaying = ld.isPlaying,
                            !.result = InterruptDetectorDetect(ld, text)]
        /\ UNCHANGED <<pl, rc, rs, pt, ci, fr, ms, vt, ba, notPureVars>>

\* PlayInterrupt(rule) up to the call of PlayAudio: nothing when already playing
PlayInterrupt ==
    /\ ld.result \notin {"none", "nil"}
    /\ ld.pc = "idle"
    /\ ld' = IF ld.isPlaying THEN ld
             ELSE [ld EXCEPT !.isPlaying = TRUE, !.currentInterrupt = ld.result,
                             !.pc = "playing"]
    /\ UNCHANGED <<pl, rc, rs, pt, ci, fr, ms, vt, ba, notPureVars>>

\* PlayInterrupt after PlayAudio has returned (with or without an error)
PlayInterruptEnds ==
    /\ ld.pc = "playing"
    /\ ld' = [ld EXCEPT !.isPlaying = FALSE, !.currentInterrupt = "", !.pc = "idle"]
    /\ UNCHANGED <<pl, rc, rs, pt, ci, fr, ms, vt, ba, notPureVars>>

\* Stop
LegacyStop ==
    /\ ld' = IF ld.isPlaying
             THEN [ld EXCEPT !.isPlaying = FALSE, !.currentInterrupt = ""]
             ELSE ld
    /\ UNCHANGED <<pl, rc, rs, pt, ci, fr, ms, vt, ba, notPureVars>>

NextLegacy ==
    \/ LegacyDetect
    \/ PlayInterrupt
    \/ PlayInterruptEnds
    \/ LegacyStop

SpecLegacy == InitLegacy /\ [][NextLegacy]_vars

\* C25: the legacy detector returns no rule while an interrupt is marked as
\* playing; otherwise the first rule, in the order dnc, robot, ni, callback,
\* one of whose keywords is a substring of the lower-cased text, and no rule
\* when no keyword occurs.
C25_LegacyDetectorFirstRuleUnlessPlaying ==
    ld.result # "none" =>
        LET order == <<"dnc", "robot", "ni", "callback">>
            has(i) == \E k \in DOMAIN detectorRules[i].Keywords :
                          Contains(ToLower(ld.text), detectorRules[i].Keywords[k])
        IN  /\ \A i \in DOMAIN order : detectorRules[i].Type = order[i]
            /\ ld.wasPlaying => ld.result = "nil"
            /\ ~ld.wasPlaying =>
                  /\ (\A i \in DOMAIN order : ~has(i)) => ld.result = "nil"
                  /\ \A i \in DOMAIN order :
                        (has(i) /\ \A k \in 1..(i - 1) : ~has(k)) => ld.result = order[i]

\* a text with keywords of two rules gave no rule while an interrupt was
\* marked as playing
C25_Witness ==
    /\ ld.isPlaying
    /\ ld.wasPlaying
    /\ ld.result = "nil"
    /\ Contains(ToLower(ld.text), <<"r", "o", "b", "o", "t", " ", "v", "o", "i", "c", "e">>)
    /\ Contains(ToLower(ld.text), <<"c", "a", "l", "l", " ", "b", "a", "c", "k">>)

(***************************************************************************)
(* DetectInterrupt on a text and on a re-casing of it, under a rule set    *)
(* and a re-casing of the rule set, both with case_sensitive = false.      *)
(***************************************************************************)
CaseAlphabet == {"a", "A", "b", "B", " "}
RECURSIVE CaseTexts(_)
CaseTexts(n) ==
    IF n = 0 THEN {<<>>}
    ELSE CaseTexts(n - 1) \cup {Append(s, c) : s \in CaseTexts(n - 1), c \in CaseAlphabet}

CaseConfigs == {"D", "E"}

\* NewPatternMatcher(name) after a successful load
matcherOf(name) == [config |-> name, fileNewer |-> FALSE, err |-> FALSE]

InitCase ==
    /\ \E c \in CaseConfigs, c2 \in CaseConfigs,
          text \in CaseTexts(MaxTextLen), recased \in CaseTexts(MaxTextLen) :
          /\ ToLower(recased) = ToLower(text)
          /\ ci = [config |-> c, recasedConfig |-> c2, text |-> text, recased |-> recased,
                   st |-> "idle", rule |-> "nil", recasedRule |-> "nil"]
    /\ PatternIdle
    /\ CodecIdle
    /\ LegacyIdle
    /\ MessagesIdle
    /\ TranscriberIdle
    /\ AdapterIdle
    /\ pl = [fn |-> "SendSlinChunks", len |-> 0, pos |-> 0, frames |-> <<>>, st |-> "idle"]
    /\ rc = [text |-> <<>>, result |-> "none"]
    /\ rs = [in |-> <<>>, out |-> <<>>]
    /\ TimerIdle
    /\ MatcherIdle
    /\ FlowIdle
    /\ ServerIdle

\* DetectInterrupt(text) under the rule set
DetectText ==
    /\ ci.st = "idle"
    /\ \E ord \in Orders(DOMAIN Cfg(ci.config).Interrupts) :
          ci' = [ci EXCEPT
                    !.st = "first",
                    !.rule = DetectInterrupt(matcherOf(ci.config), ci.config,
                                             ci.text, ord).rule]
    /\ UNCHANGED <<pl, rc, rs, pt, fr, ld, ms, vt, ba, notPureVars>>

\* DetectInterrupt(re-cased text) under the re-cased rule set
DetectRecased ==
    /\ ci.st = "first"
    /\ \E ord \in Orders(DOMAIN Cfg(ci.recasedConfig).Interrupts) :
          ci' = [ci EXCEPT
                    !.st = "done",
                    !.recasedRule = DetectInterrupt(matcherOf(ci.recasedConfig),
                                                    ci.recasedConfig, ci.recased, ord).rule]
    /\ UNCHANGED <<pl, rc, rs, pt, fr, ld, ms, vt, ba, notPureVars>>

NextCase ==
    \/ DetectText
    \/ DetectRecased

SpecCase == InitCase /\ [][NextCase]_vars

\* the text contains an Exact phrase of the rule set, letter case apart
containsExact(name, text) ==
    \E k \in DOMAIN Cfg(name).Interrupts :
        \E i \in DOMAIN Cfg(name).Interrupts[k].Patterns :
            \E j \in DOMAIN Cfg(name).Interrupts[k].Patterns[i].Phrases :
                Contains(ToLower(text),
                         ToLower(Cfg(name).Interrupts[k].Patterns[i].Phrases[j]))

\* C26: with case_sensitive = false, a text and a re-casing of it, under a
\* rule set and a re-casing of the rule set, yield the same rule; and a text
\* that contains a configured Exact phrase is detected.
C26_DetectionIgnoresCase ==
    ci.st = "done" =>
        /\ ci.rule = ci.recasedRule
        /\ containsExact(ci.config, ci.text) => ci.rule # "nil"

\* what holds of the two detections: the same rules match, so both detect or
\* neither does, and a text containing an Exact phrase is detected
CaseFoldingOfMatching ==
    ci.st = "done" =>
        /\ Matching(ci.config, ci.text) = Matching(ci.recasedConfig, ci.recased)
        /\ ci.rule \in Matching(ci.config, ci.text) \cup {"nil"}
        /\ ci.recasedRule \in Matching(ci.config, ci.text) \cup {"nil"}
        /\ (ci.rule = "nil") = (ci.recasedRule = "nil")
        /\ Cardinality(Matching(ci.config, ci.text)) <= 1 => ci.rule = ci.recasedRule
        /\ containsExact(ci.config, ci.text) =>
               ci.rule # "nil" /\ ci.recasedRule # "nil"

\* a text that matches one rule only is detected under both casings
CaseSingleRuleDetected ==
    /\ ci.st = "done"
    /\ ci.text # ci.recased
    /\ ci.config # ci.recasedConfig
    /\ Matching(ci.config, ci.text) = {"callback"}
    /\ ci.rule = "callback"

(***************************************************************************)
(* The message loop of one session and what follows it.  ms.wire is what   *)
(* the peer sent after the ID frame (a frame "eof" is a read that fails),   *)
(* ms.pos the number of reads done, ms.log what handleMessage did, in       *)
(* order, ms.exit the steps taken after the loop, in order.                 *)
(***************************************************************************)
RECURSIVE Wires(_)
Wires(n) ==
    IF n = 0 THEN {<<>>}
    ELSE Wires(n - 1) \cup {Append(w, f) : w \in Wires(n - 1), f \in LoopFrames}

\* NextMessage past the end of what the peer sent fails with io.EOF
frameAt(m, i) == IF i <= Len(m.wire) THEN m.wire[i] ELSE Frame("eof", 0)

\* Session.handleMessage on the frame at position i: what it does, in order
handled(m, i) ==
    LET frame == frameAt(m, i)
    IN  CASE frame.kind = "slin" /\ frame.len > 0 /\ ~m.asrDown ->
               <<[what |-> "audio", at |-> i]>>
                   \o (IF m.saveAudio THEN <<[what |-> "capture", at |-> i]>> ELSE <<>>)
          [] frame.kind = "dtmf" /\ frame.len > 0 -> <<[what |-> "marker", at |-> i]>>
          [] frame.kind = "silence" -> <<[what |-> "marker", at |-> i]>>
          [] OTHER -> <<>>

\* a faulty variant of the round: the loop goes on after a hangup message
messageRoundNoHangupCheck(m) ==
    LET i == m.pos + 1
        frame == frameAt(m, i)
    IN  IF frame.kind = "eof" \/ handleMessage(m, frame) # ""
        THEN [m EXCEPT !.pos = i, !.stopAt = i, !.pc = "finalize"]
        ELSE [m EXCEPT !.pos = i, !.log = @ \o handled(m, i)]

\* one round of the message loop: NextMessage, handleMessage, the hangup check
messageRound(m) ==
    LET i == m.pos + 1
        frame == frameAt(m, i)
    IN  IF frame.kind = "eof" \/ handleMessage(m, frame) # ""
        THEN [m EXCEPT !.pos = i, !.stopAt = i, !.pc = "finalize"]
        ELSE IF frame.kind = "hangup"
             THEN [m EXCEPT !.pos = i, !.stopAt = i, !.pc = "finalize"]
             ELSE [m EXCEPT !.pos = i, !.log = @ \o handled(m, i)]

\* Session.finalize: close(stopAmbient), GetFullTranscript, the files
finalize(m) ==
    [m EXCEPT !.exit = @ \o <<"stopAmbient", "getTranscript", "persist">>,
              !.pc = "deferred"]

\* the deferred calls of handleConnection, last deferred first
deferred(m) ==
    [m EXCEPT !.exit = @ \o <<"transcriberClose", "connClose", "wgDone">>,
              !.pc = "done"]

InitMessages ==
    /\ \E wire \in Wires(MaxWire), save \in BOOLEAN :
          ms = [wire |-> wire, pos |-> 0, pc |-> "loop", log |-> <<>>, exit |-> <<>>,
                asrDown |-> FALSE, saveAudio |-> save, stopAt |-> 0]
    /\ PatternIdle
    /\ CaseIdle
    /\ CodecIdle
    /\ LegacyIdle
    /\ TranscriberIdle
    /\ AdapterIdle
    /\ pl = [fn |-> "SendSlinChunks", len |-> 0, pos |-> 0, frames |-> <<>>, st |-> "idle"]
    /\ rc = [text |-> <<>>, result |-> "none"]
    /\ rs = [in |-> <<>>, out |-> <<>>]
    /\ TimerIdle
    /\ MatcherIdle
    /\ FlowIdle
    /\ ServerIdle

\* one round of the message loop
MessageRound ==
    /\ ms.pc = "loop"
    /\ ms' = messageRound(ms)
    /\ UNCHANGED <<pl, rc, rs, pt, ci, fr, ld, vt, ba, notPureVars>>

\* the WebSocket to the transcription provider breaks
ProviderFails ==
    /\ ms.pc = "loop"
    /\ ~ms.asrDown
    /\ ms' = [ms EXCEPT !.asrDown = TRUE]
    /\ UNCHANGED <<pl, rc, rs, pt, ci, fr, ld, vt, ba, notPureVars>>

\* session.finalize()
Finalize ==
    /\ ms.pc = "finalize"
    /\ ms' = finalize(ms)
    /\ UNCHANGED <<pl, rc, rs, pt, ci, fr, ld, vt, ba, notPureVars>>

\* handleConnection returns
Deferred ==
    /\ ms.pc = "deferred"
    /\ ms' = deferred(ms)
    /\ UNCHANGED <<pl, rc, rs, pt, ci, fr, ld, vt, ba, notPureVars>>

NextMessages ==
    \/ MessageRound
    \/ ProviderFails
    \/ Finalize
    \/ Deferred

SpecMessages == InitMessages /\ [][NextMessages]_vars

\* the positions of the frames that end the loop by themselves
Terminal == {i \in DOMAIN ms.wire : ms.wire[i].kind \in {"hangup", "error", "eof"}}

\* C36: the frames are handled in wire order, and nothing that follows the
\* first hangup frame, error frame, failed read or handling error is
\* processed: no audio forwarded, no marker added, nothing captured.
C36_WireOrderUntilFirstEnd ==
    /\ \A i, k \in DOMAIN ms.log : i < k => ms.log[i].at <= ms.log[k].at
    /\ \A i \in DOMAIN ms.log :
          /\ ms.log[i].at <= ms.pos
          /\ \A t \in Terminal : ms.log[i].at < t
          /\ ms.stopAt # 0 => ms.log[i].at < ms.stopAt
    /\ \A t \in Terminal : ms.pos <= t
    /\ ms.stopAt # 0 => ms.pos = ms.stopAt /\ ms.pc # "loop"
    /\ \A i \in 1..ms.pos :
          (ms.wire # <<>> /\ i <= Len(ms.wire) /\ i # ms.stopAt
              /\ ms.wire[i].kind \in {"dtmf", "silence"} /\ ms.wire[i] # Frame("dtmf", 0)) =>
                 \E k \in DOMAIN ms.log : ms.log[k] = [what |-> "marker", at |-> i]

\* the loop ended at a hangup frame with a frame behind it on the wire, after
\* audio had been forwarded
C36_Witness ==
    /\ ms.pc = "done"
    /\ ms.stopAt < Len(ms.wire)
    /\ ms.wire[ms.stopAt].kind = "hangup"
    /\ ms.wire[ms.stopAt + 1].kind = "slin"
    /\ \E k \in DOMAIN ms.log : ms.log[k].what = "audio"

\* the place of a step among the steps taken after the loop, 0 when not taken
exitIndex(step) ==
    IF \E i \in DOMAIN ms.exit : ms.exit[i] = step
    THEN CHOOSE i \in DOMAIN ms.exit : ms.exit[i] = step
    ELSE 0

\* C37: after the message loop the stop signals, the player's among them,
\* are fired first, then the transcriber is closed, then finalization reads
\* the full transcript and persists it: the close never comes after the read.
C37_StopCloseFinalize ==
    ms.pc = "done" =>
        /\ exitIndex("stopAmbient") # 0
        /\ exitIndex("stopAudio") # 0
        /\ exitIndex("transcriberClose") # 0
        /\ exitIndex("getTranscript") # 0
        /\ exitIndex("stopAmbient") < exitIndex("transcriberClose")
        /\ exitIndex("stopAudio") < exitIndex("transcriberClose")
        /\ exitIndex("transcriberClose") < exitIndex("getTranscript")
        /\ exitIndex("getTranscript") < exitIndex("persist")

\* what holds after the loop: the ambient stop is fired, the transcript is
\* read and persisted, and only then is the transcriber closed; the player's
\* stop signal is not fired
ExitOrderOfTheCode ==
    ms.pc = "done" =>
        ms.exit = <<"stopAmbient", "getTranscript", "persist",
                    "transcriberClose", "connClose", "wgDone">>

(***************************************************************************)
(* The VoskTranscriber: the goroutine handleResults (vt.pc), the buffered  *)
(* channel vt.results (vt.queue results in it, vt.closed), the WebSocket    *)
(* (vt.conn), the goroutine of GetTranscriptionResults that ranges over     *)
(* Results() (vt.consumer) and the flow engine that receives from it.       *)
(***************************************************************************)
\* what a message of the provider holds: a partial, a final text, both, or
\* something json.Unmarshal rejects
ProviderMessages == {"partial", "final", "both", "bad"}

\* handleResults after ReadMessage returned a message: the send it goes to
afterRead(t, msg) ==
    CASE msg = "bad"     -> [t EXCEPT !.pc = "read", !.msg = "none"]
      [] msg = "final"   -> [t EXCEPT !.pc = "sendFinal", !.msg = msg]
      [] OTHER           -> [t EXCEPT !.pc = "sendPartial", !.msg = msg]

\* a faulty variant of readFails: handleResults returns without closing results
readFailsNoClose(t) == [t EXCEPT !.pc = "returned"]

\* handleResults when ReadMessage fails: close(vt.results); return
readFails(t) == [t EXCEPT !.closed = TRUE, !.pc = "returned"]

\* vt.results <- TranscriptionResult{...}: possible while the channel has room
sendResult(t) ==
    [t EXCEPT !.queue = @ + 1,
              !.pc = IF t.pc = "sendPartial" /\ t.msg = "both" THEN "sendFinal" ELSE "read",
              !.msg = IF t.pc = "sendPartial" /\ t.msg = "both" THEN @ ELSE "none"]

InitTranscriber ==
    /\ \E consumer \in {"none", "ranging"} :
          vt = [pc |-> "read", msg |-> "none", queue |-> 0, closed |-> FALSE,
                conn |-> "open", consumer |-> consumer, engine |-> "waiting"]
    /\ PatternIdle
    /\ CaseIdle
    /\ CodecIdle
    /\ LegacyIdle
    /\ MessagesIdle
    /\ AdapterIdle
    /\ pl = [fn |-> "SendSlinChunks", len |-> 0, pos |-> 0, frames |-> <<>>, st |-> "idle"]
    /\ rc = [text |-> <<>>, result |-> "none"]
    /\ rs = [in |-> <<>>, out |-> <<>>]
    /\ TimerIdle
    /\ MatcherIdle
    /\ FlowIdle
    /\ ServerIdle

\* handleResults: vt.conn.ReadMessage returns a message
ReadMessage ==
    /\ vt.pc = "read"
    /\ vt.conn = "open"
    /\ \E msg \in ProviderMessages : vt' = afterRead(vt, msg)
    /\ UNCHANGED <<pl, rc, rs, pt, ci, fr, ld, ms, ba, notPureVars>>

\* handleResults: vt.conn.ReadMessage fails because the connection is closed
ReadFails ==
    /\ vt.pc = "read"
    /\ vt.conn = "closed"
    /\ vt' = readFails(vt)
    /\ UNCHANGED <<pl, rc, rs, pt, ci, fr, ld, ms, ba, notPureVars>>

\* handleResults: a send on vt.results goes through
SendResult ==
    /\ vt.pc \in {"sendPartial", "sendFinal"}
    /\ vt.queue < ResultsCap
    /\ vt' = sendResult(vt)
    /\ UNCHANGED <<pl, rc, rs, pt, ci, fr, ld, ms, ba, notPureVars>>

\* Close(), or the peer ends the connection
CloseTranscriber ==
    /\ vt.conn = "open"
    /\ vt' = [vt EXCEPT !.conn = "closed"]
    /\ UNCHANGED <<pl, rc, rs, pt, ci, fr, ld, ms, ba, notPureVars>>

\* the goroutine of GetTranscriptionResults takes a result from Results()
ConsumerTakes ==
    /\ vt.consumer = "ranging"
    /\ vt.queue > 0
    /\ vt' = [vt EXCEPT !.queue = @ - 1, !.consumer = "sending"]
    /\ UNCHANGED <<pl, rc, rs, pt, ci, fr, ld, ms, ba, notPureVars>>

\* its range ends: Results() is closed and empty
ConsumerFinishes ==
    /\ vt.consumer = "ranging"
    /\ vt.queue = 0
    /\ vt.closed
    /\ vt' = [vt EXCEPT !.consumer = "finished"]
    /\ UNCHANGED <<pl, rc, rs, pt, ci, fr, ld, ms, ba, notPureVars>>

\* the wait loop of the flow engine receives what the goroutine sends
EngineReceives ==
    /\ vt.consumer = "sending"
    /\ vt.engine = "waiting"
    /\ vt' = [vt EXCEPT !.consumer = "ranging"]
    /\ UNCHANGED <<pl, rc, rs, pt, ci, fr, ld, ms, ba, notPureVars>>

\* the flow ends: nobody receives from the goroutine any more
FlowEnds ==
    /\ vt.engine = "waiting"
    /\ vt' = [vt EXCEPT !.engine = "ended"]
    /\ UNCHANGED <<pl, rc, rs, pt, ci, fr, ld, ms, ba, notPureVars>>

NextTranscriber ==
    \/ ReadMessage
    \/ ReadFails
    \/ SendResult
    \/ CloseTranscriber
    \/ ConsumerTakes
    \/ ConsumerFinishes
    \/ EngineReceives
    \/ FlowEnds

SpecTranscriber == InitTranscriber /\ [][NextTranscriber]_vars

\* every goroutine that can take a step takes one in the end
SpecTranscriberFair ==
    /\ SpecTranscriber
    /\ WF_vars(ReadFails)
    /\ WF_vars(SendResult)
    /\ WF_vars(ConsumerTakes)
    /\ WF_vars(ConsumerFinishes)
    /\ WF_vars(EngineReceives)

\* C38: after Close() or the end of the connection the results channel is
\* closed in the end: handleResults returns and every goroutine that ranges
\* over Results() finishes, also when the channel is full and nobody reads.
C38_ResultsEventuallyClosed ==
    (vt.conn = "closed") ~>
        (vt.closed /\ vt.pc = "returned" /\ vt.consumer \in {"none", "finished"})

\* what holds: whenever handleResults has returned the channel is closed, and
\* handleResults is never stuck except in a send on the full channel
ResultsClosedOnReturn ==
    /\ vt.pc = "returned" <=> vt.closed
    /\ vt.closed => vt.conn = "closed"
    /\ vt.consumer = "finished" => vt.closed /\ vt.queue = 0

\* handleResults is blocked in a send on the full channel after Close()
BlockedOnFullChannel ==
    /\ vt.conn = "closed"
    /\ vt.pc \in {"sendPartial", "sendFinal"}
    /\ vt.queue = ResultsCap
    /\ (vt.consumer = "none" \/ vt.engine = "ended")
    /\ ~vt.closed


(***************************************************************************)
(* The buffered adapter (AssemblyAITranscriber): ProcessAudio appends to   *)
(* audioBuffer, the goroutine audioSender flushes it on every tick of its  *)
(* ticker and once more when stopSending is closed, and Close writes what  *)
(* is left.  The audio stream is a row of bytes numbered from 0; ba.next   *)
(* is the number of the first byte in the buffer, ba.buffer the length of  *)
(* the buffer, and a written message is <<number of its first byte,        *)
(* length>>.  ba.sent holds the messages of audioSender, ba.tail the       *)
(* message of Close.                                                       *)
(***************************************************************************)
minChunkSize == 1600
maxChunkSize == 30400

\* how many times ProcessAudio is called
MaxFeeds == 3
\* a flush in which this many writes succeed has no failing write
MaxWrites == 4

\* lengths of the (resampled) data of one ProcessAudio call
AudioSizes == {640, 1000, 30400, 32000}

RECURSIVE sendLoop(_, _)
\* the for loop of sendBufferedAudio; the write after `ok` writes fails
sendLoop(b, ok) ==
    IF b.buffer >= minChunkSize
    THEN LET chunkSize == IF b.buffer > maxChunkSize THEN maxChunkSize ELSE b.buffer
         IN  IF ok = 0
             THEN [b EXCEPT !.next = @ + b.buffer, !.buffer = 0]
             ELSE sendLoop([b EXCEPT !.sent = Append(@, <<b.next, chunkSize>>),
                                     !.next = @ + chunkSize,
                                     !.buffer = @ - chunkSize], ok - 1)
    ELSE b

\* a faulty variant of sendBufferedAudio that writes the whole buffer as one
\* message, whatever its length
sendBufferedAudioWhole(b, ok) ==
    IF b.buffer = 0 \/ ok = 0
    THEN [b EXCEPT !.next = @ + b.buffer, !.buffer = 0]
    ELSE [b EXCEPT !.sent = Append(@, <<b.next, b.buffer>>),
                   !.next = @ + b.buffer, !.buffer = 0]

sendBufferedAudio(b, ok) ==
    IF b.buffer < minChunkSize THEN b ELSE sendLoop(b, ok)

InitAdapter ==
    /\ ba = [buffer |-> 0, next |-> 0, sent |-> <<>>, tail |-> <<>>,
             pc |-> "running", fed |-> 0]
    /\ PatternIdle
    /\ CaseIdle
    /\ CodecIdle
    /\ LegacyIdle
    /\ MessagesIdle
    /\ TranscriberIdle
    /\ pl = [fn |-> "SendSlinChunks", len |-> 0, pos |-> 0, frames |-> <<>>, st |-> "idle"]
    /\ rc = [text |-> <<>>, result |-> "none"]
    /\ rs = [in |-> <<>>, out |-> <<>>]
    /\ TimerIdle
    /\ MatcherIdle
    /\ FlowIdle
    /\ ServerIdle

ProcessAudio ==
    /\ ba.pc \in {"running", "stopping"}
    /\ ba.fed < MaxFeeds
    /\ \E n \in AudioSizes :
          ba' = [ba EXCEPT !.buffer = @ + n, !.fed = @ + 1]
    /\ UNCHANGED <<pl, rc, rs, pt, ci, fr, ld, ms, vt, notPureVars>>

\* case <-ticker.C
TickerFires ==
    /\ ba.pc \in {"running", "stopping"}
    /\ \E ok \in 0..MaxWrites : ba' = sendBufferedAudio(ba, ok)
    /\ UNCHANGED <<pl, rc, rs, pt, ci, fr, ld, ms, vt, notPureVars>>

\* Close: close(at.stopSending)
StopSending ==
    /\ ba.pc = "running"
    /\ ba' = [ba EXCEPT !.pc = "stopping"]
    /\ UNCHANGED <<pl, rc, rs, pt, ci, fr, ld, ms, vt, notPureVars>>

\* case <-at.stopSending
LastFlush ==
    /\ ba.pc = "stopping"
    /\ \E ok \in 0..MaxWrites :
          ba' = [sendBufferedAudio(ba, ok) EXCEPT !.pc = "stopped"]
    /\ UNCHANGED <<pl, rc, rs, pt, ci, fr, ld, ms, vt, notPureVars>>

\* Close after wg.Wait(): the rest of the buffer, of any length
CloseAdapter ==
    /\ ba.pc = "stopped"
    /\ ba' = [ba EXCEPT !.tail = IF ba.buffer > 0 THEN <<ba.next, ba.buffer>> ELSE <<>>,
                        !.next = @ + ba.buffer, !.buffer = 0, !.pc = "closed"]
    /\ UNCHANGED <<pl, rc, rs, pt, ci, fr, ld, ms, vt, notPureVars>>

NextAdapter ==
    \/ ProcessAudio
    \/ TickerFires
    \/ StopSending
    \/ LastFlush
    \/ CloseAdapter

SpecAdapter == InitAdapter /\ [][NextAdapter]_vars

\* C39: every message written by audioSender, its last flush included, is
\* between 1600 and 30400 bytes long; the messages are stretches of the
\* buffered stream in order, none overlapping another; and while audioSender
\* runs, a buffer shorter than 1600 bytes is neither written nor dropped.
C39_EmitterChunks ==
    /\ [](/\ \A i \in 1..Len(ba.sent) :
               /\ ba.sent[i][2] >= minChunkSize
               /\ ba.sent[i][2] <= maxChunkSize
               /\ ba.sent[i][1] + ba.sent[i][2] <= ba.next
          /\ \A i \in 1..(Len(ba.sent) - 1) :
               ba.sent[i + 1][1] >= ba.sent[i][1] + ba.sent[i][2])
    /\ [][ba.buffer < minChunkSize /\ ba.pc \in {"running", "stopping"}
            => /\ ba'.sent = ba.sent
               /\ ba'.next = ba.next
               /\ ba'.buffer >= ba.buffer]_vars

\* audioSender has returned after writing a message of the greatest length,
\* and a rest shorter than 1600 bytes is still in the buffer
EmitterStoppedWithShortRest ==
    /\ ba.pc = "stopped"
    /\ \E i \in 1..Len(ba.sent) : ba.sent[i][2] = maxChunkSize
    /\ ba.buffer > 0 /\ ba.buffer < minChunkSize


\* some word of the groups occurs in the text, letter case set aside
someWordOccurs ==
    \E g \in DOMAIN pt.groups :
        \E k \in DOMAIN pt.groups[g] :
            Contains(ToLower(pt.text), ToLower(pt.groups[g][k]))

MatchNeedsWordUnlessEmptyList ==
    pt.done =>
        /\ ~pt.unknown
        /\ pt.misfiled
        /\ pt.groups # <<>> /\ (pt.required \/ pt.alternative) => someWordOccurs
        /\ pt.combo /\ (\A g \in DOMAIN pt.groups : pt.groups[g] # <<>>) => someWordOccurs
        /\ pt.groups = <<>> => pt.required /\ pt.alternative /\ ~pt.combo

\* a required pattern without groups matched a text without words
EmptyPatternMatched ==
    pt.done /\ pt.groups = <<>> /\ pt.text = <<>> /\ pt.required


====
